---- MODULE Spec2Model ----
(***************************************************************************)
(* LoRaDB storage engine: write-ahead log, memtable, SSTables, compaction, *)
(* retention and device deletion (src/LoRaDB/src/storage/mod.rs and the    *)
(* engine/ modules it drives).                                             *)
(*                                                                         *)
(* Tasks of the tokio runtime are processes; each engine method is a chain *)
(* of steps, one step per lock acquisition or file-system call, so that    *)
(* the interleavings the multi-threaded runtime allows are explored.       *)
(***************************************************************************)
EXTENDS Integers, Sequences, FiniteSets, TLC

\* ------------------------------------------------------------- bounds ----
\* Number of write calls explored.
MaxWrites == 3
\* Number of crash/reopen cycles explored.
MaxCrashes == 1
\* Number of injected I/O failures explored.
MaxFaults == 1
\* Number of delete_device calls explored.
MaxDeletes == 2
\* Largest value of the wall clock explored (in days).
MaxNow == 4
\* Number of add calls explored on one SSTableWriter.
MaxAdds == 3
\* Writes of the two parallel ingest handlers.
MaxEqualWrites == 2
\* Writes of the flush and compact scenario.
MaxScenarioWrites == 5

\* ------------------------------------------------------- configuration ----
\* StorageConfig.compaction_threshold: the third SSTable starts a compaction.
CompactionThreshold == 2
\* StorageConfig.memtable_size_mb, in the size units of EntrySize: the third
\* entry makes write flush.
MemtableSizeUnits == 6

\* ---------------------------------------------------------- constants ----
\* Memtable::insert adds size_of_val(&frame) + size_of_val(&key) per entry;
\* Memtable::delete_device subtracts size_of_val(&entry.value()) (the size
\* of a reference) + size_of_val(&key). Both are fixed sizes; they are kept
\* here as 2 and 1 units.
EntrySize == 2
DeletedEntrySize == 1
\* i64::MIN, i64::MAX and u64::MAX of the range keys, scaled into the
\* integer range of the model (all timestamps and sequences lie between).
I64_MIN == -1000
I64_MAX == 1000
U64_MAX == 1000

\* Option: None, or Some(x) with the value at index 1.
None == <<>>
Some(x) == <<x>>

\* -------------------------------------------------------------- DevEui ---
\* A DevEui is a string of hex characters, kept as the sequence of its
\* ASCII codes ("a" = 97, "A" = 65, "b" = 98).
to_lowercase(c) == IF c >= 65 /\ c <= 90 THEN c + 32 ELSE c

normalized(d) == [i \in DOMAIN d |-> to_lowercase(d[i])]

\* The derived PartialEq of DevEui compares the strings as written.
DevEuiEq(a, b) == a = b

\* Ord of String: lexicographic on the bytes.
RECURSIVE StrLess(_, _)
StrLess(a, b) ==
  IF b = <<>> THEN FALSE
  ELSE IF a = <<>> THEN TRUE
  ELSE IF Head(a) # Head(b) THEN Head(a) < Head(b)
  ELSE StrLess(Tail(a), Tail(b))

\* ---------------------------------------------------------------- Frame --
\* A frame: the id stands for the rest of the payload (frame counter, raw
\* payload ...), so that two writes are told apart. Its DateTime has
\* nanosecond resolution: the field timestamp holds the whole microseconds
\* and nanos what is left below a microsecond.
DateTime(micros, nanos) == [micros |-> micros, nanos |-> nanos]

\* Frame::timestamp
timestamp(f) == DateTime(f.timestamp, f.nanos)

\* DateTime::timestamp_micros: what is below a microsecond is cut off.
timestamp_micros(t) == t.micros

\* The order of DateTime.
TimeLeq(a, b) == a.micros < b.micros \/ (a.micros = b.micros /\ a.nanos <= b.nanos)

application_id(f) ==
  IF f.kind \in {"Uplink", "Downlink", "Status"} THEN Some(f.application_id) ELSE None

\* ----------------------------------------------------------- MemtableKey -
MemtableKey(dev_eui, time, sequence) ==
  [dev_eui |-> normalized(dev_eui), timestamp |-> timestamp_micros(time),
   sequence |-> sequence]

range_start(dev_eui, start_time) ==
  [dev_eui |-> normalized(dev_eui),
   timestamp |-> IF start_time = None THEN I64_MIN ELSE timestamp_micros(start_time[1]),
   sequence |-> 0]

range_end(dev_eui, end_time) ==
  [dev_eui |-> normalized(dev_eui),
   timestamp |-> IF end_time = None THEN I64_MAX ELSE timestamp_micros(end_time[1]),
   sequence |-> U64_MAX]

\* The derived Ord of MemtableKey: dev_eui, then timestamp, then sequence.
KeyLess(k1, k2) ==
  IF k1.dev_eui # k2.dev_eui THEN StrLess(k1.dev_eui, k2.dev_eui)
  ELSE IF k1.timestamp # k2.timestamp THEN k1.timestamp < k2.timestamp
  ELSE k1.sequence < k2.sequence

KeyLeq(k1, k2) == k1 = k2 \/ KeyLess(k1, k2)

\* ------------------------------------------------------------- sequences -
RECURSIVE SeqOfSet(_)
\* The entries of a skip map in key order.
SeqOfSet(S) ==
  IF S = {} THEN <<>>
  ELSE LET m == CHOOSE x \in S : \A y \in S : KeyLeq(x.key, y.key)
       IN <<m>> \o SeqOfSet(S \ {m})

Range(s) == {s[i] : i \in DOMAIN s}

RECURSIVE Concat(_)
Concat(ss) == IF ss = <<>> THEN <<>> ELSE Head(ss) \o Concat(Tail(ss))

SelectFrames(s) == [i \in DOMAIN s |-> s[i].frame]

RECURSIVE SumOf(_)
SumOf(item) == IF item = <<>> THEN 0 ELSE Head(item) + SumOf(Tail(item))

\* Insert x behind every element that does not come after it: one step of a
\* stable sort under the order Leq.
RECURSIVE InsertByTimestamp(_, _)
InsertByTimestamp(s, x) ==
  IF s = <<>> THEN <<x>>
  ELSE IF TimeLeq(timestamp(s[Len(s)]), timestamp(x)) THEN Append(s, x)
  ELSE Append(InsertByTimestamp(SubSeq(s, 1, Len(s) - 1), x), s[Len(s)])

RECURSIVE SortByTimestamp(_)
\* Vec::sort_by_key(|f| f.timestamp()): a stable sort.
SortByTimestamp(s) ==
  IF s = <<>> THEN <<>>
  ELSE InsertByTimestamp(SortByTimestamp(SubSeq(s, 1, Len(s) - 1)), s[Len(s)])

RECURSIVE InsertByKey(_, _)
InsertByKey(s, x) ==
  IF s = <<>> THEN <<x>>
  ELSE IF KeyLeq(s[Len(s)].key, x.key) THEN Append(s, x)
  ELSE Append(InsertByKey(SubSeq(s, 1, Len(s) - 1), x), s[Len(s)])

RECURSIVE SortByKey(_)
\* Vec::sort_by(|a, b| a.0.cmp(&b.0)): a stable sort.
SortByKey(s) ==
  IF s = <<>> THEN <<>>
  ELSE InsertByKey(SortByKey(SubSeq(s, 1, Len(s) - 1)), s[Len(s)])

\* -------------------------------------------------------------- Memtable -
\* SkipMap::insert under the key (dev_eui, timestamp, sequence): an entry
\* with an equal key is replaced.
MemInsert(data, sequence, frame) ==
  LET key == MemtableKey(frame.dev_eui, timestamp(frame), sequence)
  IN {e \in data : e.key # key} \cup {[key |-> key, frame |-> frame]}

KeyRange(data, lo, hi) == {e \in data : KeyLeq(lo, e.key) /\ KeyLeq(e.key, hi)}

scan_device_range(data, dev_eui, start_time, end_time) ==
  SelectFrames(SeqOfSet(KeyRange(data, range_start(dev_eui, start_time),
                                       range_end(dev_eui, end_time))))

\* The keys Memtable::delete_device collects and removes.
keys_to_delete(data, dev_eui) ==
  KeyRange(data, [dev_eui |-> normalized(dev_eui), timestamp |-> I64_MIN, sequence |-> 0],
                 [dev_eui |-> normalized(dev_eui), timestamp |-> I64_MAX, sequence |-> U64_MAX])

should_flush(size) == size >= MemtableSizeUnits

\* ------------------------------------------------------------------ WAL --
WAL_MAGIC == 1280266817
WAL_VERSION == 2

\* The variants of Frame in the order of the enum, and the application
\* identifiers that occur: a string is written as its place in the list.
Variants == <<"Uplink", "Downlink", "JoinRequest", "JoinAccept", "Status">>
AppNames == <<"app1", "app2">>

IndexOf(list, x) == CHOOSE i \in DOMAIN list : list[i] = x

\* u16/u32::to_le_bytes and from_le_bytes
to_le_bytes(x, n) == [i \in 1..n |-> (x \div (256 ^ (i - 1))) % 256]
from_le_bytes(b) == SumOf([i \in DOMAIN b |-> b[i] * (256 ^ (i - 1))])

\* serde_json::Value, as far as frames carry it: null, a number, or an object
\* of numbers; members is the map of the object, sorted by key.
JsonKeys == <<"battery", "temperature">>
JsonNull == [type |-> "Null", number |-> 0, members |-> <<>>]
JsonNumber(n) == [type |-> "Number", number |-> n, members |-> <<>>]
JsonObject(members) == [type |-> "Object", number |-> 0, members |-> members]

\* serde_json::to_string(value): the text of the value.
json_to_string(object) ==
  IF object.type = "Null" THEN <<0>>
  ELSE IF object.type = "Number" THEN <<1, object.number>>
  ELSE <<2, Len(object.members)>> \o Concat(object.members)

\* serde_json::from_str(&json_string): None for Err.
json_from_str(text) ==
  IF text = <<0>> THEN Some(JsonNull)
  ELSE IF Len(text) = 2 /\ text[1] = 1 THEN Some(JsonNumber(text[2]))
  ELSE IF /\ Len(text) >= 2 /\ text[1] = 2 /\ text[2] >= 0
          /\ Len(text) = 2 + 2 * text[2]
          /\ \A i \in 1..text[2] : text[1 + 2 * i] \in DOMAIN JsonKeys
       THEN Some(JsonObject([i \in 1..text[2] |-> <<text[1 + 2 * i], text[2 + 2 * i]>>]))
       ELSE None

\* serialize_value: the Value goes into the record as the string of its JSON
\* text, a length and the characters.
serialize_value(object) == <<Len(json_to_string(object))>> \o json_to_string(object)

\* deserialize_value: the string is read and parsed; None for Err.
deserialize_value(bytes) ==
  IF Len(bytes) >= 1 /\ Len(bytes) = bytes[1] + 1
  THEN json_from_str(Tail(bytes))
  ELSE None

\* Option<DecodedPayload> of an UplinkFrame: the tag, then the value.
serialize_payload(f) ==
  IF f.kind # "Uplink" THEN <<>>
  ELSE IF f.decoded_payload = None THEN <<0>>
  ELSE <<1>> \o serialize_value(f.decoded_payload[1])

\* A serializer that leaves an absent decoded_payload out of the record
\* (skip_serializing_if = "Option::is_none").
serialize_frame_skip_none(f) ==
  <<IndexOf(Variants, f.kind) - 1, Len(f.dev_eui)>> \o f.dev_eui
  \o <<f.timestamp, f.nanos, f.id,
       IF application_id(f) = None THEN 0 ELSE IndexOf(AppNames, f.application_id)>>
  \o (IF f.decoded_payload = None THEN <<>> ELSE serialize_payload(f))

\* bincode::serialize(frame): the variant index, then the fields of the variant.
serialize_frame(f) ==
  <<IndexOf(Variants, f.kind) - 1, Len(f.dev_eui)>> \o f.dev_eui
  \o <<f.timestamp, f.nanos, f.id,
       IF application_id(f) = None THEN 0 ELSE IndexOf(AppNames, f.application_id)>>
  \o serialize_payload(f)

\* The decoded_payload read from the rest of a record: None for Err, else
\* Some of the Option.
deserialize_payload(kind, rest) ==
  IF kind # "Uplink" THEN (IF rest = <<>> THEN Some(None) ELSE None)
  ELSE IF rest = <<0>> THEN Some(None)
  ELSE IF Len(rest) >= 2 /\ rest[1] = 1 /\ deserialize_value(Tail(rest)) # None
       THEN Some(deserialize_value(Tail(rest)))
       ELSE None

\* bincode::deserialize::<Frame>(payload): None for Err.
deserialize_frame(payload) ==
  IF Len(payload) < 2 \/ payload[1] + 1 \notin DOMAIN Variants
     \/ payload[2] < 0 \/ Len(payload) < payload[2] + 6
  THEN None
  ELSE LET n == payload[2]
           kind == Variants[payload[1] + 1]
           app == payload[n + 6]
           decoded == deserialize_payload(kind, SubSeq(payload, n + 7, Len(payload)))
       IN IF kind \in {"JoinRequest", "JoinAccept"} /\ app # 0 THEN None
          ELSE IF kind \notin {"JoinRequest", "JoinAccept"} /\ app \notin DOMAIN AppNames
          THEN None
          ELSE IF decoded = None THEN None
          ELSE Some([id |-> payload[n + 5], dev_eui |-> SubSeq(payload, 3, n + 2),
                     timestamp |-> payload[n + 3], nanos |-> payload[n + 4],
                     kind |-> kind,
                     application_id |-> IF app = 0 THEN "" ELSE AppNames[app],
                     decoded_payload |-> decoded[1]])

\* crc32fast::Hasher over the bytes: a checksum that every change of one byte
\* changes.
crc32(bytes) == SumOf(bytes)

\* The record of a frame in the format of version v: magic, version, length,
\* payload and the checksum of version, length and payload.
EntryBytes(v, frame) ==
  LET payload == serialize_frame(frame)
      version == to_le_bytes(v, 2)
      length == to_le_bytes(Len(payload), 4)
  IN to_le_bytes(WAL_MAGIC, 4) \o version \o length \o payload
     \o to_le_bytes(crc32(version \o length \o payload), 4)

\* The record WriteAheadLog::append writes.
WalEntry(frame) == EntryBytes(WAL_VERSION, frame)

\* The loop of replay_segment from `pos` bytes into the file: ok is FALSE
\* where a read_exact leaves the function through the ? operator.
RECURSIVE read_entries(_, _, _)
read_entries(bytes, pos, frames) ==
  LET left == Len(bytes) - pos
      at(from, n) == SubSeq(bytes, pos + from + 1, pos + from + n)
  IN IF left < 4 THEN [ok |-> TRUE, frames |-> frames]
     ELSE IF from_le_bytes(at(0, 4)) # WAL_MAGIC THEN [ok |-> TRUE, frames |-> frames]
     ELSE IF left < 6 THEN [ok |-> TRUE, frames |-> frames]
     ELSE IF left < 10 THEN [ok |-> FALSE, frames |-> <<>>]
     ELSE LET length == from_le_bytes(at(6, 4))
          IN IF left < 14 + length THEN [ok |-> FALSE, frames |-> <<>>]
             ELSE LET payload == at(10, length)
                      stored_checksum == from_le_bytes(at(10 + length, 4))
                      computed_checksum == crc32(at(4, 6) \o payload)
                      frame == deserialize_frame(payload)
                      next == pos + 14 + length
                  IN IF stored_checksum # computed_checksum
                     THEN read_entries(bytes, next, frames)
                     ELSE IF from_le_bytes(at(4, 2)) # WAL_VERSION
                     THEN read_entries(bytes, next, frames)
                     ELSE IF frame = None THEN read_entries(bytes, next, frames)
                     ELSE read_entries(bytes, next, Append(frames, frame[1]))

\* WriteAheadLog::replay_segment
replay_segment(bytes) == read_entries(bytes, 0, <<>>)

\* The loop of WriteAheadLog::replay over the segment files: the frames of a
\* segment that fails to replay are left out.
replay_segments(segments) ==
  Concat([i \in DOMAIN segments |->
            IF replay_segment(segments[i]).ok THEN replay_segment(segments[i]).frames
            ELSE <<>>])

\* A replay that stops one record early.
replay_without_last(file) ==
  SubSeq(replay_segments(<<file>>), 1, Len(replay_segments(<<file>>)) - 1)

\* WriteAheadLog::replay over the one segment the engine ever writes.
replay(file) == replay_segments(<<file>>)

\* --------------------------------------------------------------- SSTable -
\* Consecutive keys are strictly ascending.
StrictlyAscending(entries) ==
  \A i \in 1..(Len(entries) - 1) : KeyLess(entries[i].key, entries[i + 1].key)

\* An add that rejects only a key below the last one.
add_accepting_equal(entries, entry) ==
  IF entries # <<>> /\ KeyLess(entry.key, entries[Len(entries)].key)
  THEN [ok |-> FALSE, entries |-> entries]
  ELSE [ok |-> TRUE, entries |-> Append(entries, entry)]

\* SSTableWriter::add on a writer holding `entries`: Err and the writer as
\* it was if key <= last_key, else the entry is pushed.
add(entries, entry) ==
  IF entries # <<>> /\ KeyLeq(entry.key, entries[Len(entries)].key)
  THEN [ok |-> FALSE, entries |-> entries]
  ELSE [ok |-> TRUE, entries |-> Append(entries, entry)]

\* `for (key, frame) in input { writer.add(key, frame)?; }` on a new writer.
RECURSIVE add_all(_, _)
add_all(entries, input) ==
  IF input = <<>> THEN [ok |-> TRUE, entries |-> entries]
  ELSE LET w == add(entries, Head(input))
       IN IF w.ok THEN add_all(w.entries, Tail(input)) ELSE w

\* add for every entry, then finish: Err for an unsorted or an empty input,
\* else the file.
WriterAccepts(entries) == entries # <<>> /\ add_all(<<>>, entries).ok

SSTableFile(id, entries, complete) == [id |-> id, entries |-> entries, complete |-> complete]

\* OpenOptions::create(true).truncate(true): a file of the same name is replaced.
PutFile(files, file) == {f \in files : f.id # file.id} \cup {file}

RemoveFiles(files, ids) == {f \in files : f.id \notin ids}

\* SSTableReader::open succeeds on a file with header, index and footer.
CanOpen(files, id) == \E f \in files : f.id = id /\ f.complete

FileEntries(files, id) ==
  IF \E f \in files : f.id = id
  THEN (CHOOSE f \in files : f.id = id).entries
  ELSE <<>>

iter_all(files, id) == SelectFrames(FileEntries(files, id))

\* ----------------------------------------------------------- BloomFilter -
\* BloomFilter::new(10_000, 0.01): num_bits and num_hash_functions, scaled
\* down so that filters of different devices overlap or not.
NumBits == 8
NumHashFunctions == 2

\* BloomFilter::hash: DefaultHasher over the item, then the seed; a fixed
\* function of both. The bit index is hash % num_bits.
hash(item, seed) == SumOf(item) * (seed + 1) + seed

BloomNew == [bits |-> [i \in 1..NumBits |-> FALSE],
             num_hash_functions |-> NumHashFunctions, num_bits |-> NumBits]

Indexes(filter, item) ==
  {(hash(item, i) % filter.num_bits) + 1 : i \in 0..(filter.num_hash_functions - 1)}

\* An insert that sets the bit of the first hash function only.
insert_first_hash(filter, item) ==
  [filter EXCEPT !.bits = [i \in DOMAIN filter.bits |->
                             filter.bits[i] \/ i = (hash(item, 0) % filter.num_bits) + 1]]

\* BloomFilter::insert
insert(filter, item) ==
  [filter EXCEPT !.bits = [i \in DOMAIN filter.bits |->
                             filter.bits[i] \/ i \in Indexes(filter, item)]]

\* BloomFilter::contains
contains(filter, item) == \A i \in Indexes(filter, item) : filter.bits[i]

\* bincode::serialize of the filter: the length of bits, one byte per bit,
\* then the two counts.
serialize(filter) ==
  <<Len(filter.bits)>> \o [i \in DOMAIN filter.bits |-> IF filter.bits[i] THEN 1 ELSE 0]
  \o <<filter.num_hash_functions, filter.num_bits>>

\* bincode::deserialize
deserialize(bytes) ==
  LET n == bytes[1]
  IN [bits |-> [i \in 1..n |-> bytes[i + 1] = 1],
      num_hash_functions |-> bytes[n + 2], num_bits |-> bytes[n + 3]]

\* The filter of a writer after add for every entry: the key's dev_eui of
\* each is inserted.
RECURSIVE bloom_filter(_, _)
bloom_filter(filter, entries) ==
  IF entries = <<>> THEN filter
  ELSE bloom_filter(insert(filter, Head(entries).key.dev_eui), Tail(entries))

\* SSTableReader::might_contain: the filter written by finish and read back
\* by open, asked with the normalized identifier.
might_contain(entries, dev_eui) ==
  contains(deserialize(serialize(bloom_filter(BloomNew, entries))), normalized(dev_eui))

\* binary_search_by(..).unwrap_or_else(|idx| idx) on the sorted index: the
\* position of the first key that is not below start_key.
start_idx(entries, start_key) ==
  1 + Cardinality({i \in DOMAIN entries : KeyLess(entries[i].key, start_key)})

RECURSIVE ScanFrom(_, _, _, _)
ScanFrom(entries, i, start_key, end_key) ==
  IF i > Len(entries) THEN <<>>
  ELSE IF KeyLess(end_key, entries[i].key) THEN <<>>
  ELSE (IF KeyLeq(start_key, entries[i].key) /\ KeyLeq(entries[i].key, end_key)
        THEN <<entries[i].frame>> ELSE <<>>)
       \o ScanFrom(entries, i + 1, start_key, end_key)

scan(entries, dev_eui, start_time, end_time) ==
  IF ~might_contain(entries, dev_eui) THEN <<>>
  ELSE ScanFrom(entries, start_idx(entries, range_start(dev_eui, start_time)),
                range_start(dev_eui, start_time), range_end(dev_eui, end_time))

\* max_timestamp: the timestamp of the footer's max_key, the last key.
max_timestamp(entries) == entries[Len(entries)].key.timestamp

\* application_ids: the set is never stored in the file, so it is rebuilt
\* from iter_all.
application_ids(entries) ==
  {id[1] : id \in {application_id(entries[i].frame) : i \in DOMAIN entries} \ {None}}

\* ------------------------------------------------------------ Compaction -
should_compact_late(sstable_count) == sstable_count > CompactionThreshold + 1

should_compact(sstable_count) == sstable_count > CompactionThreshold

Rekey(entries) ==
  [i \in DOMAIN entries |->
     [key |-> MemtableKey(entries[i].frame.dev_eui, timestamp(entries[i].frame), 0),
      frame |-> entries[i].frame]]

\* A map that keeps the first of equal keys.
KeepFirst(s) ==
  LET keep == {i \in DOMAIN s : \A j \in DOMAIN s : j < i => s[j].key # s[i].key}
      F[i \in 0..Len(s)] ==
        IF i = 0 THEN <<>>
        ELSE IF i \in keep THEN Append(F[i - 1], s[i]) ELSE F[i - 1]
  IN F[Len(s)]

\* BTreeMap::insert over the sorted entries: of equal keys the last stays.
KeepLast(s) ==
  LET keep == {i \in DOMAIN s : \A j \in DOMAIN s : j > i => s[j].key # s[i].key}
      F[i \in 0..Len(s)] ==
        IF i = 0 THEN <<>>
        ELSE IF i \in keep THEN Append(F[i - 1], s[i]) ELSE F[i - 1]
  IN F[Len(s)]

\* A merge that leaves out the first input SSTable.
merged_data_skip_first(inputs) ==
  LET rest == Tail(inputs)
      s == SortByKey(Concat([i \in DOMAIN rest |-> Rekey(rest[i])]))
      keep == {i \in DOMAIN s : \A j \in DOMAIN s : j > i => s[j].key # s[i].key}
  IN SelectSeq(s, LAMBDA e : \E i \in keep : s[i] = e)

\* CompactionManager::compact: the entries of the merged SSTable.
merged_data(inputs) == KeepLast(SortByKey(Concat([i \in DOMAIN inputs |-> Rekey(inputs[i])])))

\* ------------------------------------------------------- Device registry -
register_or_update(reg, dev_eui) ==
  LET key == normalized(dev_eui)
  IN IF \E r \in reg : r.key = key
     THEN {IF r.key = key THEN [r EXCEPT !.frame_count = @ + 1] ELSE r : r \in reg}
     ELSE reg \cup {[key |-> key, dev_eui |-> dev_eui, frame_count |-> 1]}

\* DeviceRegistry::get: the entry under the normalized identifier.
get(reg, dev_eui) ==
  IF \E r \in reg : r.key = normalized(dev_eui)
  THEN Some(CHOOSE r \in reg : r.key = normalized(dev_eui))
  ELSE None

\* DeviceRegistry::get_device: DashMap::get under the string as given.
get_device(reg, dev_eui_str) ==
  IF \E r \in reg : r.key = dev_eui_str
  THEN Some(CHOOSE r \in reg : r.key = dev_eui_str)
  ELSE None

\* DashMap::remove under the string as given.
remove_device(reg, dev_eui_str) == {r \in reg : r.key # dev_eui_str}

RECURSIVE RegisterAll(_, _)
RegisterAll(reg, frames) ==
  IF frames = <<>> THEN reg
  ELSE RegisterAll(register_or_update(reg, Head(frames).dev_eui), Tail(frames))

\* ------------------------------------------------- retention_policies.json -
\* RetentionPolicies::default
DefaultPolicies ==
  [global_days |-> None, applications |-> [a \in Range(AppNames) |-> None],
   check_interval_hours |-> 24]

\* Option<u32> as JSON: null, or the number (written here as 0 and days + 1).
EncodeDays(days) == IF days = None THEN 0 ELSE days[1] + 1

DecodeDays(n) == IF n = 0 THEN None ELSE Some(n - 1)

\* serde_json::to_string_pretty(&policies): global_days, the number of
\* entries of the applications map, each entry as application and days, and
\* check_interval_hours.
to_string_pretty(policies) ==
  LET present == SelectSeq(AppNames, LAMBDA a : policies.applications[a] # None)
  IN <<EncodeDays(policies.global_days), Len(present)>>
     \o Concat([i \in DOMAIN present |->
                  <<IndexOf(AppNames, present[i]),
                    EncodeDays(policies.applications[present[i]][1])>>])
     \o <<policies.check_interval_hours>>

\* serde_json::from_str::<RetentionPolicies>(&content): None for Err.
from_str(content) ==
  IF /\ Len(content) >= 3
     /\ content[2] >= 0
     /\ Len(content) = 3 + 2 * content[2]
     /\ \A i \in 1..content[2] : content[1 + 2 * i] \in DOMAIN AppNames
  THEN Some([global_days |-> DecodeDays(content[1]),
             applications |->
               [a \in Range(AppNames) |->
                  IF \E i \in 1..content[2] : AppNames[content[1 + 2 * i]] = a
                  THEN Some(DecodeDays(content[2 + 2 * (CHOOSE i \in 1..content[2] :
                                                         AppNames[content[1 + 2 * i]] = a)]))
                  ELSE None],
             check_interval_hours |-> content[Len(content)]])
  ELSE None

\* RetentionPolicyManager::new: the policies of the file, the default ones
\* when the file is absent or does not parse.
new(file) ==
  IF file # None /\ from_str(file[1]) # None THEN from_str(file[1])[1] ELSE DefaultPolicies

\* RetentionPolicyManager::from_env: the file if it exists, else the values
\* of the environment.
from_env(file, env) == IF file # None THEN new(file) ELSE env

\* ------------------------------------------------------------------ state -
VARIABLES
  walFile,     \* disk: the bytes of wal/wal-00000000.log
  sstFiles,    \* disk: the sstable-<id>.sst files
  polGlobal,   \* RetentionPolicyManager.policies: global_days
  polApps,     \* RetentionPolicyManager.policies: applications
  polInterval, \* RetentionPolicyManager.policies: check_interval_hours
  polFile,     \* disk: the text of retention_policies.json, None while absent
  walLinked,   \* whether current_segment is the file of the directory
  memData,     \* Memtable.data
  memSeq,      \* Memtable.sequence
  memSize,     \* Memtable.size_bytes
  sstables,    \* StorageEngine.sstables: the readers, by id
  nextSstId,   \* CompactionManager.next_sstable_id
  registry,    \* DeviceRegistry.devices
  now,         \* the wall clock, in days
  pc,          \* where each task stands
  loc,         \* the local variables of each task's call
  ret,         \* what each task's last call returned
  acked,       \* history: the frames whose write returned Ok
  unflushed,   \* history: frames written with no flush since their write began
  written,     \* history: number of write calls made
  crashes,     \* history: number of crashes
  faults,      \* history: number of injected I/O failures
  deletes      \* history: number of delete_device calls made

policyState == <<polGlobal, polApps, polInterval, polFile>>
disk == <<walFile, sstFiles, policyState>>
memory == <<walLinked, memData, memSeq, memSize, sstables, nextSstId, registry>>
tasks == <<pc, loc, ret>>
history == <<acked, unflushed, written, crashes, faults, deletes>>
vars == <<disk, memory, now, tasks, history>>

\* The tasks: an ingest handler, the periodic flush task and an API handler.
Writer == "writer"
Flusher == "flusher"
Admin == "admin"
Procs == {Writer, Flusher, Admin}

Apps == {"app1", "app2"}
\* The retention periods set, in days.
Days == {1, 2}

OptionDays == {None} \cup {Some(d) : d \in Days}

NoRet == [op |-> "none", status |-> "none", value |-> 0]

LocIdle ==
  [op |-> "none", frame |-> None, dev_eui |-> None, id |-> 0, entries |-> <<>>,
   paths |-> <<>>, new |-> <<>>, count |-> 0, clean |-> FALSE, pre |-> {}, stored |-> 0,
   policies |-> None, start_time |-> None, end_time |-> None, results |-> <<>>,
   query |-> None, sequence |-> 0, program |-> <<>>, held |-> {}, waiting |-> FALSE]

FlushPcs == {"f_alloc", "f_snap", "f_finish", "f_open", "f_clear", "f_trunc",
             "f_install", "f_check", "c_paths", "c_compact", "c_install", "c_delete"}

AllIdle == \A p \in Procs : pc[p] = "idle"

\* A task that takes sstables.write() without waiting for the readers.
NoSSTablesLock(p) == TRUE

\* sstables.write() is granted to task p: no other task is inside the scan
\* loop of query, which holds sstables.read() from its first to its last
\* SSTable.
CanWriteSSTables(p) == \A q \in Procs \ {p} : pc[q] # "q_scan"

\* ------------------------------------------------------ construction -----
\* Memtable after `for frame in recovered_frames { memtable.insert(frame) }`.
RecoveredMemtable(frames) ==
  {[key |-> MemtableKey(frames[i].dev_eui, timestamp(frames[i]), i - 1), frame |-> frames[i]]
     : i \in DOMAIN frames}

RECURSIVE AscendingIds(_)
AscendingIds(S) ==
  IF S = {} THEN <<>>
  ELSE LET m == CHOOSE x \in S : \A y \in S : x <= y
       IN <<m>> \o AscendingIds(S \ {m})

\* open_all_sstables: the files that open, in file-name order.
open_all_sstables(files) == AscendingIds({f.id : f \in {g \in files : g.complete}})

MaxOf(S) == IF S = {} THEN 0 ELSE CHOOSE x \in S : \A y \in S : y <= x

\* StorageEngine::new: the registry rebuilt from the SSTables, then the memtable.
RebuiltRegistry(files, frames) ==
  RegisterAll(RegisterAll({}, Concat([i \in DOMAIN open_all_sstables(files) |->
                                         iter_all(files, open_all_sstables(files)[i])])),
              SelectFrames(SeqOfSet(RecoveredMemtable(frames))))

\* ------------------------------------------------------------------ query -
\* StorageEngine::query over a memtable, a list of readers and the files.
QueryOn(data, list, files, dev_eui, start_time, end_time) ==
  SortByTimestamp(
    scan_device_range(data, dev_eui, start_time, end_time)
    \o Concat([i \in DOMAIN list |-> scan(FileEntries(files, list[i]), dev_eui, start_time, end_time)]))

query(dev_eui, start_time, end_time) ==
  QueryOn(memData, sstables, sstFiles, dev_eui, start_time, end_time)

\* query on a fresh engine opened over the data directory as it is now.
RecoveredQuery(dev_eui) ==
  QueryOn(RecoveredMemtable(replay(walFile)), open_all_sstables(sstFiles), sstFiles,
          dev_eui, None, None)

Occurrences(s, x) == Cardinality({i \in DOMAIN s : s[i] = x})

\* ------------------------------------------------------------------- Init -
\* The store of an empty data directory, all calls still to come.
InitStore ==
  /\ walFile = <<>>
  /\ sstFiles = {}
  /\ walLinked = TRUE
  /\ memData = {}
  /\ memSeq = 0
  /\ memSize = 0
  /\ sstables = <<>>
  /\ nextSstId = 1
  /\ registry = {}
  /\ now = 3
  /\ loc = [p \in Procs |-> LocIdle]
  /\ ret = [p \in Procs |-> NoRet]
  /\ acked = {}
  /\ unflushed = {}
  /\ written = 0
  /\ crashes = 0
  /\ faults = 0
  /\ deletes = 0

Init ==
  /\ InitStore
  /\ polGlobal = None
  /\ polApps = [a \in Apps |-> None]
  /\ polInterval = DefaultPolicies.check_interval_hours
  /\ polFile = Some(to_string_pretty(DefaultPolicies))
  /\ pc = [p \in Procs |-> "idle"]

\* A call returns: the task is idle again and its locals are gone.
Return(p, status, value) ==
  /\ pc' = [pc EXCEPT ![p] = "idle"]
  /\ loc' = [loc EXCEPT ![p] = LocIdle]
  /\ ret' = [ret EXCEPT ![p] = [op |-> loc[p].op, status |-> status, value |-> value]]
  /\ IF loc[p].op = "write" /\ status = "Ok"
     THEN /\ acked' = acked \cup {loc[p].frame}
          /\ unflushed' = IF loc[p].clean THEN unflushed \cup {loc[p].frame} ELSE unflushed
     ELSE UNCHANGED <<acked, unflushed>>

Goto(p, label) == pc' = [pc EXCEPT ![p] = label]

\* ------------------------------------------------------------------ write -
FrameAt(dev_eui, time, kind, app) ==
  [id |-> written + 1, dev_eui |-> dev_eui, timestamp |-> time.micros, nanos |-> time.nanos,
   kind |-> kind, application_id |-> app, decoded_payload |-> None]

\* A frame received on a whole microsecond.
NewFrame(dev_eui, micros, kind, app) == FrameAt(dev_eui, DateTime(micros, 0), kind, app)

\* write, up to the registry update.
BeginWrite(p, f) ==
  /\ pc[p] = "idle"
  /\ written' = written + 1
  /\ registry' = register_or_update(registry, f.dev_eui)
  /\ loc' = [loc EXCEPT ![p] = [LocIdle EXCEPT !.op = "write", !.frame = f,
                                  !.clean = \A q \in Procs : pc[q] \notin FlushPcs]]
  /\ ret' = [ret EXCEPT ![p] = NoRet]
  /\ Goto(p, "w_append")
  /\ UNCHANGED <<disk, walLinked, memData, memSeq, memSize, sstables, nextSstId, now,
                 acked, unflushed, crashes, faults, deletes>>

StartWrite(p, f) == written < MaxWrites /\ BeginWrite(p, f)

\* wal.append(&frame): the record goes to the file current_segment holds,
\* which is the file of the directory unless truncate has removed it.
WalAppend(p) ==
  /\ pc[p] = "w_append"
  /\ walFile' = IF walLinked THEN walFile \o WalEntry(loc[p].frame) ELSE walFile
  /\ Goto(p, "w_insert")
  /\ UNCHANGED <<sstFiles, policyState, memory, now, loc, ret, history>>

\* wal.append fails: write returns the error.
WalAppendFail(p) ==
  /\ pc[p] = "w_append"
  /\ faults < MaxFaults
  /\ faults' = faults + 1
  /\ Return(p, "Err", 0)
  /\ UNCHANGED <<disk, memory, now, written, crashes, deletes>>

\* memtable.insert(frame)
MemtableInsert(p) ==
  /\ pc[p] = "w_insert"
  /\ memData' = MemInsert(memData, memSeq, loc[p].frame)
  /\ memSeq' = memSeq + 1
  /\ memSize' = memSize + EntrySize
  /\ Goto(p, "w_check")
  /\ UNCHANGED <<disk, walLinked, sstables, nextSstId, registry, now, loc, ret, history>>

\* memtable.insert(frame) in its two parts, as two tasks run it at once under
\* memtable.read(): sequence.fetch_add(1) ...
InsertFetchAdd(p) ==
  /\ pc[p] = "w_insert"
  /\ loc' = [loc EXCEPT ![p].sequence = memSeq]
  /\ memSeq' = memSeq + 1
  /\ Goto(p, "w_data")
  /\ UNCHANGED <<disk, walLinked, memData, memSize, sstables, nextSstId, registry, now,
                 ret, history>>

\* ... and data.insert(key, frame) with size_bytes.fetch_add.
InsertData(p) ==
  /\ pc[p] = "w_data"
  /\ memData' = MemInsert(memData, loc[p].sequence, loc[p].frame)
  /\ memSize' = memSize + EntrySize
  /\ Goto(p, "w_check")
  /\ UNCHANGED <<disk, walLinked, memSeq, sstables, nextSstId, registry, now, loc, ret,
                 history>>

\* should_flush, then either flush_memtable or Ok.
CheckFlush(p) ==
  /\ pc[p] = "w_check"
  /\ IF should_flush(memSize)
     THEN Goto(p, "f_alloc") /\ UNCHANGED <<loc, ret, acked, unflushed>>
     ELSE Return(p, "Ok", 0)
  /\ UNCHANGED <<disk, memory, now, written, crashes, faults, deletes>>

\* ------------------------------------------------------------------ flush -
\* start_periodic_flush: a tick that finds data in the memtable.
PeriodicFlush(p) ==
  /\ pc[p] = "idle"
  /\ memData # {}
  /\ loc' = [loc EXCEPT ![p] = [LocIdle EXCEPT !.op = "periodic_flush"]]
  /\ ret' = [ret EXCEPT ![p] = NoRet]
  /\ Goto(p, "f_alloc")
  /\ UNCHANGED <<disk, memory, now, history>>

\* flush_memtable: allocate_sstable_id
FlushAllocate(p) ==
  /\ pc[p] = "f_alloc"
  /\ nextSstId' = nextSstId + 1
  /\ loc' = [q \in Procs |->
               IF q = p THEN [loc[q] EXCEPT !.id = nextSstId, !.pre = acked, !.clean = FALSE]
               ELSE [loc[q] EXCEPT !.clean = FALSE]]
  /\ unflushed' = {}
  /\ Goto(p, "f_snap")
  /\ UNCHANGED <<disk, walLinked, memData, memSeq, memSize, sstables, registry, now, ret,
                 acked, written, crashes, faults, deletes>>

\* memtable.iter().collect()
FlushSnapshot(p) ==
  /\ pc[p] = "f_snap"
  /\ loc' = [loc EXCEPT ![p].entries = SeqOfSet(memData)]
  /\ Goto(p, "f_finish")
  /\ UNCHANGED <<disk, memory, now, ret, history>>

\* A flush that clears the memtable once the file is written, before it is
\* reopened.
FlushFinishThenClear(p) ==
  /\ pc[p] = "f_finish"
  /\ WriterAccepts(loc[p].entries)
  /\ sstFiles' = PutFile(sstFiles, SSTableFile(loc[p].id, loc[p].entries, TRUE))
  /\ Goto(p, "f_clear")
  /\ UNCHANGED <<walFile, policyState, memory, now, loc, ret, history>>

\* writer.add for every entry, writer.finish
FlushFinish(p) ==
  /\ pc[p] = "f_finish"
  /\ IF WriterAccepts(loc[p].entries)
     THEN /\ sstFiles' = PutFile(sstFiles, SSTableFile(loc[p].id, loc[p].entries, TRUE))
          /\ Goto(p, "f_open")
          /\ UNCHANGED <<loc, ret, acked, unflushed>>
     ELSE /\ Return(p, "Err", 0)
          /\ UNCHANGED sstFiles
  /\ UNCHANGED <<walFile, policyState, memory, now, written, crashes, faults, deletes>>

\* writer.finish fails while writing: the file is left without its footer.
FlushFinishFail(p) ==
  /\ pc[p] = "f_finish"
  /\ loc[p].entries # <<>>
  /\ faults < MaxFaults
  /\ faults' = faults + 1
  /\ sstFiles' = PutFile(sstFiles, SSTableFile(loc[p].id, <<>>, FALSE))
  /\ Return(p, "Err", 0)
  /\ UNCHANGED <<walFile, policyState, memory, now, written, crashes, deletes>>

\* SSTableReader::open, sstables.push(reader)
FlushOpen(p) ==
  /\ pc[p] = "f_open"
  /\ IF CanOpen(sstFiles, loc[p].id)
     THEN /\ CanWriteSSTables(p)
          /\ sstables' = Append(sstables, loc[p].id)
          /\ Goto(p, "f_clear")
          /\ UNCHANGED <<loc, ret, acked, unflushed>>
     ELSE /\ Return(p, "Err", 0)
          /\ UNCHANGED sstables
  /\ UNCHANGED <<disk, walLinked, memData, memSeq, memSize, nextSstId, registry, now,
                 written, crashes, faults, deletes>>

\* SSTableReader::open fails.
FlushOpenFail(p) ==
  /\ pc[p] = "f_open"
  /\ faults < MaxFaults
  /\ faults' = faults + 1
  /\ Return(p, "Err", 0)
  /\ UNCHANGED <<disk, memory, now, written, crashes, deletes>>

\* memtable.clear()
FlushClear(p) ==
  /\ pc[p] = "f_clear"
  /\ \A q \in Procs : pc[q] # "w_data"
  /\ memData' = {}
  /\ memSize' = 0
  /\ memSeq' = 0
  /\ Goto(p, "f_trunc")
  /\ UNCHANGED <<disk, walLinked, sstables, nextSstId, registry, now, loc, ret, history>>

\* wal.truncate(): remove_file of every segment. current_segment still holds
\* the removed file.
TruncateRemove(p) ==
  /\ pc[p] = "f_trunc"
  /\ walFile' = <<>>
  /\ walLinked' = FALSE
  /\ Goto(p, "f_install")
  /\ UNCHANGED <<sstFiles, policyState, memData, memSeq, memSize, sstables,
                 nextSstId, registry, now, loc, ret, history>>

\* wal.truncate(): WalSegment::open of segment 0, *current = new_segment
TruncateInstall(p) ==
  /\ pc[p] = "f_install"
  /\ walLinked' = TRUE
  /\ Goto(p, "f_check")
  /\ UNCHANGED <<disk, memData, memSeq, memSize, sstables, nextSstId, registry, now,
                 loc, ret, history>>

\* should_compact, then either compact or Ok.
FlushCheckCompact(p) ==
  /\ pc[p] = "f_check"
  /\ IF should_compact(Len(sstables))
     THEN Goto(p, "c_paths") /\ UNCHANGED <<loc, ret, acked, unflushed>>
     ELSE Return(p, "Ok", 0)
  /\ UNCHANGED <<disk, memory, now, written, crashes, faults, deletes>>

\* ---------------------------------------------------------------- compact -
\* compact: the paths of the current list
CompactPaths(p) ==
  /\ pc[p] = "c_paths"
  /\ loc' = [loc EXCEPT ![p].paths = sstables]
  /\ Goto(p, "c_compact")
  /\ UNCHANGED <<disk, memory, now, ret, history>>

\* compact: reopen the SSTables, CompactionManager::compact writes the merged one
CompactMerge(p) ==
  /\ pc[p] = "c_compact"
  /\ LET paths == loc[p].paths
         merged == merged_data([i \in DOMAIN paths |-> FileEntries(sstFiles, paths[i])])
     IN IF (\A i \in DOMAIN paths : CanOpen(sstFiles, paths[i])) /\ WriterAccepts(merged)
        THEN /\ nextSstId' = nextSstId + 1
             /\ sstFiles' = PutFile(sstFiles, SSTableFile(nextSstId, merged, TRUE))
             /\ loc' = [loc EXCEPT ![p].id = nextSstId]
             /\ Goto(p, "c_install")
             /\ UNCHANGED <<ret, acked, unflushed>>
        ELSE /\ Return(p, "Err", 0)
             /\ UNCHANGED <<nextSstId, sstFiles>>
  /\ UNCHANGED <<walFile, policyState, walLinked, memData, memSeq, memSize, sstables,
                 registry, now, written, crashes, faults, deletes>>

\* compact: open the new SSTable, *sstables = vec![new_reader]
CompactInstall(p) ==
  /\ pc[p] = "c_install"
  /\ IF CanOpen(sstFiles, loc[p].id)
     THEN /\ CanWriteSSTables(p)
          /\ sstables' = <<loc[p].id>>
          /\ Goto(p, "c_delete")
          /\ UNCHANGED <<loc, ret, acked, unflushed>>
     ELSE /\ Return(p, "Err", 0)
          /\ UNCHANGED sstables
  /\ UNCHANGED <<disk, walLinked, memData, memSeq, memSize, nextSstId, registry, now,
                 written, crashes, faults, deletes>>

\* compact: delete_old_sstables
CompactDeleteOld(p) ==
  /\ pc[p] = "c_delete"
  /\ sstFiles' = RemoveFiles(sstFiles, Range(loc[p].paths))
  /\ Return(p, "Ok", 0)
  /\ UNCHANGED <<walFile, policyState, memory, now, written, crashes, faults, deletes>>

\* ------------------------------------------------------------------ crash -
\* RetentionPolicyManager::from_env in StorageEngine::new, with save().
ReloadPolicies ==
  LET policies == from_env(polFile, DefaultPolicies)
  IN /\ polGlobal' = policies.global_days
     /\ polApps' = policies.applications
     /\ polInterval' = policies.check_interval_hours
     /\ polFile' = Some(to_string_pretty(policies))

\* The process dies and StorageEngine::new runs over the data directory.
CrashReopen ==
  /\ crashes < MaxCrashes
  /\ crashes' = crashes + 1
  /\ walLinked' = TRUE
  /\ memData' = RecoveredMemtable(replay(walFile))
  /\ memSeq' = Len(replay(walFile))
  /\ memSize' = Len(replay(walFile)) * EntrySize
  /\ sstables' = open_all_sstables(sstFiles)
  /\ nextSstId' = MaxOf(Range(open_all_sstables(sstFiles))) + 1
  /\ registry' = RebuiltRegistry(sstFiles, replay(walFile))
  /\ pc' = [p \in Procs |-> "idle"]
  /\ loc' = [p \in Procs |-> LocIdle]
  /\ ret' = [p \in Procs |-> NoRet]
  /\ ReloadPolicies
  /\ UNCHANGED <<walFile, sstFiles, now, acked, unflushed, written, faults, deletes>>

\* ---------------------------------------------------------- delete_device -
\* The frames of a device that the engine holds: memtable entries plus the
\* entries of every listed SSTable.
StoredFrames(dev_eui) ==
  SelectFrames(SeqOfSet({e \in memData : e.key.dev_eui = normalized(dev_eui)}))
  \o Concat([i \in DOMAIN sstables |->
               SelectSeq(iter_all(sstFiles, sstables[i]),
                         LAMBDA f : normalized(f.dev_eui) = normalized(dev_eui))])

StartDelete(p, d) ==
  /\ pc[p] = "idle"
  /\ deletes < MaxDeletes
  /\ deletes' = deletes + 1
  /\ loc' = [loc EXCEPT ![p] = [LocIdle EXCEPT !.op = "delete_device", !.dev_eui = d,
                                  !.stored = Len(StoredFrames(d))]]
  /\ ret' = [ret EXCEPT ![p] = NoRet]
  /\ Goto(p, "d_mem")
  /\ UNCHANGED <<disk, memory, now, acked, unflushed, written, crashes, faults>>

\* memtable.delete_device(dev_eui)
DeleteFromMemtable(p) ==
  /\ pc[p] = "d_mem"
  /\ LET keys == keys_to_delete(memData, loc[p].dev_eui)
     IN /\ memData' = memData \ keys
        /\ memSize' = memSize - Cardinality(keys) * DeletedEntrySize
        /\ loc' = [loc EXCEPT ![p].count = @ + Cardinality(keys)]
  /\ Goto(p, "d_paths")
  /\ UNCHANGED <<disk, walLinked, memSeq, sstables, nextSstId, registry, now, ret, history>>

\* sstables_to_process: the paths of the current list
DeletePaths(p) ==
  /\ pc[p] = "d_paths"
  /\ loc' = [loc EXCEPT ![p].paths = sstables]
  /\ Goto(p, IF sstables = <<>> THEN "d_registry" ELSE "d_rewrite")
  /\ UNCHANGED <<disk, memory, now, ret, history>>

\* The frames of one SSTable that stay: frame.dev_eui() == dev_eui drops a frame.
RemainingFrames(frames, dev_eui) == SelectSeq(frames, LAMBDA f : ~DevEuiEq(f.dev_eui, dev_eui))

\* The rewritten entries: keyed by position, then sorted by key.
keyed_frames(frames) ==
  SortByKey([i \in DOMAIN frames |->
               [key |-> MemtableKey(frames[i].dev_eui, timestamp(frames[i]), i - 1),
                frame |-> frames[i]]])

\* The loop over old_sstables: the files written, the ids taken, the new
\* list and the frames counted as deleted.
RECURSIVE Rewrite(_, _, _)
Rewrite(paths, dev_eui, acc) ==
  IF paths = <<>> THEN acc
  ELSE LET all == iter_all(sstFiles, Head(paths))
           frames == RemainingFrames(all, dev_eui)
           counted == [acc EXCEPT !.count = @ + (Len(all) - Len(frames))]
       IN Rewrite(Tail(paths), dev_eui,
            IF frames = <<>> THEN counted
            ELSE [counted EXCEPT
                    !.files = PutFile(@, SSTableFile(acc.next, keyed_frames(frames), TRUE)),
                    !.next = @ + 1,
                    !.new = Append(@, acc.next)])

DeleteRewrite(p) ==
  /\ pc[p] = "d_rewrite"
  /\ IF \A i \in DOMAIN loc[p].paths : CanOpen(sstFiles, loc[p].paths[i])
     THEN LET r == Rewrite(loc[p].paths, loc[p].dev_eui,
                           [files |-> sstFiles, next |-> nextSstId, new |-> <<>>,
                            count |-> loc[p].count])
          IN /\ sstFiles' = r.files
             /\ nextSstId' = r.next
             /\ loc' = [loc EXCEPT ![p].new = r.new, ![p].count = r.count]
             /\ Goto(p, "d_install")
             /\ UNCHANGED <<ret, acked, unflushed>>
     ELSE /\ Return(p, "Err", 0)
          /\ UNCHANGED <<sstFiles, nextSstId>>
  /\ UNCHANGED <<walFile, policyState, walLinked, memData, memSeq, memSize, sstables,
                 registry, now, written, crashes, faults, deletes>>

\* *sstables = new_sstables
DeleteInstall(p) ==
  /\ pc[p] = "d_install"
  /\ CanWriteSSTables(p)
  /\ sstables' = loc[p].new
  /\ Goto(p, "d_files")
  /\ UNCHANGED <<disk, walLinked, memData, memSeq, memSize, nextSstId, registry, now,
                 loc, ret, history>>

\* remove_file of every old path
DeleteOldFiles(p) ==
  /\ pc[p] = "d_files"
  /\ sstFiles' = RemoveFiles(sstFiles, Range(loc[p].paths))
  /\ Goto(p, "d_registry")
  /\ UNCHANGED <<walFile, policyState, memory, now, loc, ret, history>>

\* device_registry.remove_device(&dev_eui.as_str().to_string()), Ok(total_deleted)
DeleteFromRegistry(p) ==
  /\ pc[p] = "d_registry"
  /\ registry' = remove_device(registry, loc[p].dev_eui)
  /\ Return(p, "Ok", loc[p].count)
  /\ UNCHANGED <<disk, walLinked, memData, memSeq, memSize, sstables, nextSstId, now,
                 written, crashes, faults, deletes>>

DeleteStep(p) ==
  \/ DeleteFromMemtable(p) \/ DeletePaths(p) \/ DeleteRewrite(p) \/ DeleteInstall(p)
  \/ DeleteOldFiles(p) \/ DeleteFromRegistry(p)

\* ------------------------------------------------------ retention policies -
\* The RetentionPolicies value with these fields.
PoliciesOf(global_days, applications, check_interval_hours) ==
  [global_days |-> global_days, applications |-> applications,
   check_interval_hours |-> check_interval_hours]

\* RetentionManager::set_global, with save()
SetGlobal(days) ==
  /\ polGlobal' = days
  /\ polFile' = Some(to_string_pretty(PoliciesOf(polGlobal', polApps, polInterval)))
  /\ UNCHANGED <<walFile, sstFiles, polApps, polInterval, memory, now, tasks, history>>

\* RetentionManager::set_application, with save(); days = None is "never".
\* polApps[app_id] is applications.get(app_id): None, or Some(days).
SetApplication(app_id, days) ==
  /\ polApps' = [polApps EXCEPT ![app_id] = Some(days)]
  /\ polFile' = Some(to_string_pretty(PoliciesOf(polGlobal, polApps', polInterval)))
  /\ UNCHANGED <<walFile, sstFiles, polGlobal, polInterval, memory, now, tasks, history>>

\* RetentionManager::remove_application, with save()
RemoveApplication(app_id) ==
  /\ polApps[app_id] # None
  /\ polApps' = [polApps EXCEPT ![app_id] = None]
  /\ polFile' = Some(to_string_pretty(PoliciesOf(polGlobal, polApps', polInterval)))
  /\ UNCHANGED <<walFile, sstFiles, polGlobal, polInterval, memory, now, tasks, history>>

\* The wall clock advances.
Tick ==
  /\ now < MaxNow
  /\ now' = now + 1
  /\ UNCHANGED <<disk, memory, tasks, history>>

\* ------------------------------------------------------ enforce_retention -
\* The orders in which a HashSet of application ids may be iterated.
Orders(S) == {o \in [1..Cardinality(S) -> S] : Range(o) = S}

\* The loop over app_ids: the retention the SSTable is judged by. A "never"
\* policy ends the loop with no retention; of several periods the longest
\* stays; an application with neither a policy nor a global default adds
\* nothing.
\* A loop that passes over a "never" policy instead of stopping at it.
retention_past_never(policies, order, shortest) ==
  LET periods ==
        {IF policies.applications[a] # None THEN policies.applications[a][1]
                                            ELSE policies.global_days :
           a \in {b \in Range(order) : policies.applications[b] # Some(None)}}
        \cup {shortest}
      days == {d[1] : d \in periods \ {None}}
  IN IF days = {} THEN None ELSE Some(CHOOSE d \in days : \A e \in days : e <= d)

RECURSIVE shortest_retention(_, _, _)
shortest_retention(policies, order, shortest) ==
  IF order = <<>> THEN shortest
  ELSE LET policy == policies.applications[Head(order)]
           retention_days == IF policy # None THEN policy[1] ELSE policies.global_days
       IN IF policy = Some(None) THEN None
          ELSE IF retention_days = None
               THEN shortest_retention(policies, Tail(order), shortest)
               ELSE shortest_retention(policies, Tail(order),
                      IF shortest = None \/ shortest[1] < retention_days[1]
                      THEN retention_days ELSE shortest)

\* A check that lets an SSTable live one day past its cutoff.
ExpiredOneDayLate(policies, entries, order) ==
  LET retention_days == shortest_retention(policies, order, None)
  IN retention_days # None /\ max_timestamp(entries) < now - retention_days[1] - 1

\* Whether the loop pushes the SSTable onto to_delete.
Expired(policies, entries, order) ==
  LET retention_days == shortest_retention(policies, order, None)
  IN retention_days # None /\ max_timestamp(entries) < now - retention_days[1]

StartRetention(p) ==
  /\ pc[p] = "idle"
  /\ loc' = [loc EXCEPT ![p] = [LocIdle EXCEPT !.op = "enforce_retention"]]
  /\ ret' = [ret EXCEPT ![p] = NoRet]
  /\ Goto(p, "r_policies")
  /\ UNCHANGED <<disk, memory, now, history>>

\* get_policies, then the early return when no policy is configured
RetentionPolicies(p) ==
  /\ pc[p] = "r_policies"
  /\ IF polGlobal = None /\ \A a \in Apps : polApps[a] = None
     THEN Return(p, "Ok", 0)
     ELSE /\ loc' = [loc EXCEPT ![p].policies =
                       [global_days |-> polGlobal, applications |-> polApps]]
          /\ Goto(p, "r_select")
          /\ UNCHANGED <<ret, acked, unflushed>>
  /\ UNCHANGED <<disk, memory, now, written, crashes, faults, deletes>>

\* The loop over the list under sstables.read(): the ids pushed onto
\* sstables_to_delete. An SSTable whose file cannot be read is skipped.
RetentionSelect(p) ==
  /\ pc[p] = "r_select"
  /\ \E chosen \in SUBSET Range(sstables) :
       /\ \A id \in Range(sstables) :
            IF CanOpen(sstFiles, id)
            THEN \E order \in Orders(application_ids(FileEntries(sstFiles, id))) :
                   (id \in chosen) = Expired(loc[p].policies, FileEntries(sstFiles, id), order)
            ELSE id \notin chosen
       /\ IF chosen = {}
          THEN Return(p, "Ok", 0)
          ELSE /\ loc' = [loc EXCEPT ![p].paths = SelectSeq(sstables, LAMBDA id : id \in chosen)]
               /\ Goto(p, "r_delete")
               /\ UNCHANGED <<ret, acked, unflushed>>
  /\ UNCHANGED <<disk, memory, now, written, crashes, faults, deletes>>

\* One round of the deletion loop: sstables.retain(..), remove_file(..);
\* Ok(()) after the last round.
RetentionDelete(p) ==
  /\ pc[p] = "r_delete"
  /\ CanWriteSSTables(p)
  /\ LET sstable_id == Head(loc[p].paths)
     IN /\ sstables' = SelectSeq(sstables, LAMBDA id : id # sstable_id)
        /\ sstFiles' = RemoveFiles(sstFiles, {sstable_id})
  /\ IF Tail(loc[p].paths) = <<>>
     THEN Return(p, "Ok", 0)
     ELSE /\ loc' = [loc EXCEPT ![p].paths = Tail(@)]
          /\ UNCHANGED <<pc, ret, acked, unflushed>>
  /\ UNCHANGED <<walFile, policyState, walLinked, memData, memSeq, memSize, nextSstId,
                 registry, now, written, crashes, faults, deletes>>

RetentionStep(p) == RetentionPolicies(p) \/ RetentionSelect(p) \/ RetentionDelete(p)

\* ------------------------------------------------------------------ steps -
WriteStep(p) == WalAppend(p) \/ MemtableInsert(p) \/ CheckFlush(p)

FlushStep(p) ==
  \/ FlushAllocate(p) \/ FlushSnapshot(p) \/ FlushFinish(p) \/ FlushOpen(p)
  \/ FlushClear(p) \/ TruncateRemove(p) \/ TruncateInstall(p) \/ FlushCheckCompact(p)
  \/ CompactPaths(p) \/ CompactMerge(p) \/ CompactInstall(p) \/ CompactDeleteOld(p)

\* The tasks that run flush_memtable: write past the threshold, and the
\* periodic flush task.
Flushers == {Writer, Flusher}

DevA == <<97>>
DevUpperA == <<65>>
DevB == <<98>>

\* The timestamps of the frames written, in days.
Timestamps == {1, 2}

\* ------------------------------------------------------------------- Spec -
\* The frames of the ingest handler.
WriteFrames == {NewFrame(DevA, t, "Uplink", "app1") : t \in Timestamps}

\* An ingest handler and the periodic flush task run in parallel; the
\* process may crash and restart at any point.
Next ==
  \/ \E f \in WriteFrames : StartWrite(Writer, f)
  \/ WriteStep(Writer)
  \/ PeriodicFlush(Flusher)
  \/ \E p \in Flushers : FlushStep(p)
  \/ CrashReopen

Spec == Init /\ [][Next]_vars

\* ------------------------------------------------------------- SpecFaults -
\* Calls run one after another; an append, the writing of an SSTable or its
\* reopening may fail.
NextFaults ==
  \/ AllIdle /\ \E f \in WriteFrames : StartWrite(Writer, f)
  \/ AllIdle /\ PeriodicFlush(Flusher)
  \/ WriteStep(Writer)
  \/ WalAppendFail(Writer)
  \/ \E p \in Flushers : FlushStep(p) \/ FlushFinishFail(p) \/ FlushOpenFail(p)

SpecFaults == Init /\ [][NextFaults]_vars

\* ----------------------------------------------------------- SpecRecovery -
\* Calls run one after another; the process may crash and restart at any
\* point, also in the middle of a call.
NextRecovery ==
  \/ AllIdle /\ \E f \in WriteFrames : StartWrite(Writer, f)
  \/ AllIdle /\ PeriodicFlush(Flusher)
  \/ WriteStep(Writer)
  \/ \E p \in Flushers : FlushStep(p)
  \/ CrashReopen

SpecRecovery == Init /\ [][NextRecovery]_vars

\* --------------------------------------------------------- SpecAllocation -
\* Calls run one after another; the writing of an SSTable may fail and leave
\* a file that does not open, and the process may crash and restart.
NextAllocation ==
  \/ AllIdle /\ \E f \in WriteFrames : StartWrite(Writer, f)
  \/ AllIdle /\ PeriodicFlush(Flusher)
  \/ WriteStep(Writer)
  \/ \E p \in Flushers : FlushStep(p) \/ FlushFinishFail(p)
  \/ CrashReopen

SpecAllocation == Init /\ [][NextAllocation]_vars

\* --------------------------------------------------------- SpecInterleave -
\* An ingest handler writing frames of one device, the periodic flush task
\* and an API handler deleting another device run in parallel; flushes start
\* compactions.
NextInterleave ==
  \/ \E f \in WriteFrames : StartWrite(Writer, f)
  \/ WriteStep(Writer)
  \/ PeriodicFlush(Flusher)
  \/ \E p \in Flushers : FlushStep(p)
  \/ StartDelete(Admin, DevB)
  \/ DeleteStep(Admin)

SpecInterleave == Init /\ [][NextInterleave]_vars

\* ------------------------------------------------------------- SpecDelete -
\* Calls run one after another: writes under identifiers in either letter
\* case, flushes, and delete_device.
Devices == {DevA, DevUpperA, DevB}

DeleteFrames ==
  {NewFrame(DevA, t, "Uplink", "app1") : t \in Timestamps}
  \cup {NewFrame(DevUpperA, 1, "Uplink", "app1"), NewFrame(DevB, 1, "Uplink", "app1")}

NextDelete ==
  \/ AllIdle /\ \E f \in DeleteFrames : StartWrite(Writer, f)
  \/ AllIdle /\ PeriodicFlush(Flusher)
  \/ AllIdle /\ \E d \in Devices : StartDelete(Admin, d)
  \/ WriteStep(Writer)
  \/ \E p \in Flushers : FlushStep(p)
  \/ DeleteStep(Admin)

SpecDelete == Init /\ [][NextDelete]_vars

\* ----------------------------------------------------- SpecDeleteRecovery -
\* Calls run one after another: writes of two devices, flushes and
\* delete_device of one of them; the process may crash and restart.
DeleteRecoveryFrames ==
  {NewFrame(DevA, t, "Uplink", "app1") : t \in Timestamps}
  \cup {NewFrame(DevB, 1, "Uplink", "app1")}

NextDeleteRecovery ==
  \/ AllIdle /\ \E f \in DeleteRecoveryFrames : StartWrite(Writer, f)
  \/ AllIdle /\ PeriodicFlush(Flusher)
  \/ AllIdle /\ StartDelete(Admin, DevA)
  \/ WriteStep(Writer)
  \/ \E p \in Flushers : FlushStep(p)
  \/ DeleteStep(Admin)
  \/ CrashReopen

SpecDeleteRecovery == Init /\ [][NextDeleteRecovery]_vars

\* --------------------------------------------------------- SpecCompaction -
\* Calls run one after another: writes of two devices, one of them under
\* two spellings of its identifier, with equal and different timestamps,
\* flushes after any write, the compaction that the third SSTable starts,
\* and a kill at any step followed by a reopen (which can leave a frame both
\* in the WAL and in an SSTable).
CompactionFrames ==
  {NewFrame(DevA, 1, "Uplink", "app1"), NewFrame(DevUpperA, 1, "Uplink", "app1"),
   NewFrame(DevB, 2, "Uplink", "app1")}

NextCompaction ==
  \/ AllIdle /\ \E f \in CompactionFrames : StartWrite(Writer, f)
  \/ AllIdle /\ PeriodicFlush(Flusher)
  \/ WriteStep(Writer)
  \/ \E p \in Flushers : FlushStep(p)
  \/ CrashReopen

SpecCompaction == Init /\ [][NextCompaction]_vars

\* ------------------------------------------------------------------ query -
\* StorageEngine::query, up to the memtable scan
StartQuery(p, dev_eui, start_time, end_time) ==
  /\ pc[p] = "idle"
  /\ loc' = [loc EXCEPT ![p] = [LocIdle EXCEPT !.op = "query", !.dev_eui = dev_eui,
                                               !.start_time = start_time,
                                               !.end_time = end_time]]
  /\ ret' = [ret EXCEPT ![p] = NoRet]
  /\ Goto(p, "q_memtable")
  /\ UNCHANGED <<disk, memory, now, history>>

\* The return of query: to the caller, or to execute, which goes on with the
\* frames (an error leaves execute through the ? operator).
QueryReturn(p, status, value) ==
  IF loc[p].op = "execute" /\ status = "Ok"
  THEN /\ loc' = [loc EXCEPT ![p].results = value]
       /\ Goto(p, "x_limit")
       /\ UNCHANGED <<ret, acked, unflushed>>
  ELSE Return(p, status, value)

\* query: the memtable scan under memtable.read()
QueryMemtable(p) ==
  /\ pc[p] = "q_memtable"
  /\ loc' = [loc EXCEPT ![p].results =
               scan_device_range(memData, loc[p].dev_eui, loc[p].start_time,
                                 loc[p].end_time)]
  /\ Goto(p, "q_sstables")
  /\ UNCHANGED <<disk, memory, now, ret, history>>

\* query: the scans of the listed SSTables under sstables.read(), the sort,
\* and the return of the frames.
QuerySSTables(p) ==
  /\ pc[p] = "q_sstables"
  /\ IF \A i \in DOMAIN sstables : CanOpen(sstFiles, sstables[i])
     THEN QueryReturn(p, "Ok",
                 SortByTimestamp(
                   loc[p].results
                   \o Concat([i \in DOMAIN sstables |->
                                scan(FileEntries(sstFiles, sstables[i]), loc[p].dev_eui,
                                     loc[p].start_time, loc[p].end_time)])))
     ELSE QueryReturn(p, "Err", 0)
  /\ UNCHANGED <<disk, memory, now, written, crashes, faults, deletes>>

QueryStep(p) == QueryMemtable(p) \/ QuerySSTables(p)

\* query, SSTable by SSTable: sstables.read() is taken; loc.paths is the list
\* the guard gives access to.
QueryLock(p) ==
  /\ pc[p] = "q_sstables"
  /\ loc' = [loc EXCEPT ![p].paths = sstables, ![p].count = 0]
  /\ Goto(p, "q_scan")
  /\ UNCHANGED <<disk, memory, now, ret, history>>

\* query: sstable.scan(..)? of the next SSTable of the list; after the last
\* one the guard is dropped, the frames are sorted and returned.
QueryScan(p) ==
  /\ pc[p] = "q_scan"
  /\ IF loc[p].count = Len(loc[p].paths)
     THEN QueryReturn(p, "Ok", SortByTimestamp(loc[p].results))
     ELSE IF CanOpen(sstFiles, loc[p].paths[loc[p].count + 1])
          THEN /\ loc' = [loc EXCEPT
                           ![p].results = @ \o scan(FileEntries(sstFiles, loc[p].paths[loc[p].count + 1]),
                                                    loc[p].dev_eui, loc[p].start_time,
                                                    loc[p].end_time),
                           ![p].count = @ + 1]
               /\ UNCHANGED <<pc, ret, acked, unflushed>>
          ELSE QueryReturn(p, "Err", 0)
  /\ UNCHANGED <<disk, memory, now, written, crashes, faults, deletes>>

\* Queries run while one other task at a time writes, flushes, compacts,
\* enforces retention or deletes a device.
SnapshotFrames ==
  {NewFrame(IF written = 1 THEN DevB ELSE DevA, 1, "Uplink", "app1")}

MutatorsIdle == pc[Writer] = "idle" /\ pc[Flusher] = "idle"

NextSnapshot ==
  \/ MutatorsIdle /\ \E f \in SnapshotFrames : StartWrite(Writer, f)
  \/ MutatorsIdle /\ PeriodicFlush(Writer)
  \/ MutatorsIdle /\ polGlobal = None /\ pc[Admin] = "idle" /\ SetGlobal(Some(1))
  \/ MutatorsIdle /\ polGlobal # None /\ StartRetention(Flusher)
  \/ MutatorsIdle /\ StartDelete(Flusher, DevB)
  \/ StartQuery(Admin, DevA, None, None)
  \/ QueryMemtable(Admin) \/ QueryLock(Admin) \/ QueryScan(Admin)
  \/ WriteStep(Writer)
  \/ FlushStep(Writer)
  \/ RetentionStep(Flusher)
  \/ DeleteStep(Flusher)

SpecSnapshot == Init /\ [][NextSnapshot]_vars

\* -------------------------------------------------------- SpecVisibility -
\* An ingest handler writing frames of one device with increasing
\* timestamps, the periodic flush task and a querying API handler run in
\* parallel.
VisibilityFrames == {NewFrame(DevA, written + 1, "Uplink", "app1")}

NextVisibility ==
  \/ \E f \in VisibilityFrames : StartWrite(Writer, f)
  \/ WriteStep(Writer)
  \/ PeriodicFlush(Flusher)
  \/ \E p \in Flushers : FlushStep(p)
  \/ StartQuery(Admin, DevA, None, None)
  \/ QueryStep(Admin)

SpecVisibility == Init /\ [][NextVisibility]_vars

\* ---------------------------------------------------------------- shutdown -
\* main: the ingest, flush and retention tasks have been aborted; shutdown is
\* called.
StartShutdown(p) ==
  /\ pc[p] = "idle"
  /\ loc' = [loc EXCEPT ![p] = [LocIdle EXCEPT !.op = "shutdown"]]
  /\ ret' = [ret EXCEPT ![p] = NoRet]
  /\ Goto(p, "s_check")
  /\ UNCHANGED <<disk, memory, now, history>>

\* A shutdown that leaves the memtable as it is.
ShutdownWithoutFlush(p) ==
  /\ pc[p] = "s_check"
  /\ Return(p, "Ok", 0)
  /\ UNCHANGED <<disk, memory, now, written, crashes, faults, deletes>>

\* shutdown: has_data, then flush_memtable()? and wal.sync(); the sync
\* changes nothing of the file's contents, so the return of the flush is the
\* return of shutdown.
ShutdownCheck(p) ==
  /\ pc[p] = "s_check"
  /\ IF memData # {}
     THEN Goto(p, "f_alloc") /\ UNCHANGED <<loc, ret, acked, unflushed>>
     ELSE Return(p, "Ok", 0)
  /\ UNCHANGED <<disk, memory, now, written, crashes, faults, deletes>>

\* The engine has not been shut down.
Up == ~(pc[Admin] = "idle" /\ ret[Admin].op = "shutdown")

ShutdownFrames ==
  {NewFrame(DevA, 1, "Uplink", "app1"), NewFrame(DevUpperA, 1, "Uplink", "app1"),
   NewFrame(DevA, 2, "Uplink", "app1"), NewFrame(DevB, 2, "Uplink", "app2")}

\* Writes and periodic flushes one after the other, then shutdown with no
\* other task running, then a new engine over the data directory.
NextShutdown ==
  \/ Up /\ AllIdle /\ \E f \in ShutdownFrames : StartWrite(Writer, f)
  \/ Up /\ AllIdle /\ PeriodicFlush(Flusher)
  \/ Up /\ AllIdle /\ StartShutdown(Admin)
  \/ ShutdownCheck(Admin)
  \/ WriteStep(Writer)
  \/ \E p \in Procs : FlushStep(p)
  \/ AllIdle /\ CrashReopen

SpecShutdown == Init /\ [][NextShutdown]_vars

\* ------------------------------------------------ policy calls, by steps -
\* A save that takes policies.read() again for each of its steps.
NoPoliciesLock(p) == TRUE

\* policies.write() is granted to task p: no other task is inside save,
\* which holds policies.read() from the serialization to the end of the
\* write of the file.
CanWritePolicies(p) == \A q \in Procs \ {p} : pc[q] # "p_write"

PolicyCall(p, op) ==
  /\ pc[p] = "idle"
  /\ CanWritePolicies(p)
  /\ loc' = [loc EXCEPT ![p] = [LocIdle EXCEPT !.op = op]]
  /\ ret' = [ret EXCEPT ![p] = NoRet]
  /\ Goto(p, "p_save")
  /\ UNCHANGED <<walFile, sstFiles, polFile, memory, now, history>>

\* set_global: policies.global_days = days under policies.write()
SetGlobalWrite(p, days) ==
  /\ PolicyCall(p, "set_global")
  /\ polGlobal' = days
  /\ UNCHANGED <<polApps, polInterval>>

\* set_application: the entry is updated or inserted under policies.write()
SetApplicationWrite(p, app_id, days) ==
  /\ PolicyCall(p, "set_application")
  /\ polApps' = [polApps EXCEPT ![app_id] = Some(days)]
  /\ UNCHANGED <<polGlobal, polInterval>>

\* remove_application: applications.remove(app_id) under policies.write();
\* Ok(false) with no save when there was no entry.
RemoveApplicationWrite(p, app_id) ==
  /\ pc[p] = "idle"
  /\ CanWritePolicies(p)
  /\ polApps' = [polApps EXCEPT ![app_id] = None]
  /\ IF polApps[app_id] # None
     THEN /\ loc' = [loc EXCEPT ![p] = [LocIdle EXCEPT !.op = "remove_application"]]
          /\ ret' = [ret EXCEPT ![p] = NoRet]
          /\ Goto(p, "p_save")
     ELSE /\ ret' = [ret EXCEPT ![p] = [op |-> "remove_application", status |-> "Ok",
                                        value |-> 0]]
          /\ UNCHANGED <<pc, loc>>
  /\ UNCHANGED <<walFile, sstFiles, polGlobal, polInterval, polFile, memory, now, history>>

\* set_check_interval_hours: policies.check_interval_hours = hours
SetIntervalWrite(p, hours) ==
  /\ PolicyCall(p, "set_check_interval_hours")
  /\ polInterval' = hours
  /\ UNCHANGED <<polGlobal, polApps>>

\* save: policies.read() and serde_json::to_string_pretty(&*policies)
SaveSerialize(p) ==
  /\ pc[p] = "p_save"
  /\ loc' = [loc EXCEPT ![p].policies =
               to_string_pretty(PoliciesOf(polGlobal, polApps, polInterval))]
  /\ Goto(p, "p_write")
  /\ UNCHANGED <<disk, memory, now, ret, history>>

\* save: tokio::fs::write(&self.file_path, json), the guard is dropped, Ok(())
SaveWrite(p) ==
  /\ pc[p] = "p_write"
  /\ polFile' = Some(loc[p].policies)
  /\ Return(p, "Ok", 0)
  /\ UNCHANGED <<walFile, sstFiles, polGlobal, polApps, polInterval, memory, now, written,
                 crashes, faults, deletes>>

\* The process ends between two calls.
StopManager ==
  /\ AllIdle
  /\ crashes < MaxCrashes
  /\ crashes' = crashes + 1
  /\ pc' = [p \in Procs |-> "boot"]
  /\ UNCHANGED <<disk, memory, now, loc, ret, acked, unflushed, written, faults, deletes>>

\* RetentionPolicyManager::from_env at startup, with save().
OpenManager(env) ==
  /\ \A p \in Procs : pc[p] = "boot"
  /\ LET policies == from_env(polFile, env)
     IN /\ polGlobal' = policies.global_days
        /\ polApps' = policies.applications
        /\ polInterval' = policies.check_interval_hours
        /\ polFile' = Some(to_string_pretty(policies))
  /\ pc' = [p \in Procs |-> "idle"]
  /\ UNCHANGED <<walFile, sstFiles, memory, now, loc, ret, history>>

\* The values of the environment at a start.
Envs ==
  {DefaultPolicies,
   PoliciesOf(Some(1), [a \in Apps |-> IF a = "app1" THEN Some(None) ELSE None], 12)}

\* The data directory before the start: without the file, or with the file
\* of an earlier run.
InitPolicies ==
  /\ InitStore
  /\ polGlobal = None
  /\ polApps = [a \in Apps |-> None]
  /\ polInterval = DefaultPolicies.check_interval_hours
  /\ polFile \in {None,
                  Some(to_string_pretty(
                    PoliciesOf(Some(2), [a \in Apps |-> IF a = "app2" THEN Some(Some(1))
                                                                    ELSE None], 6)))}
  /\ pc = [p \in Procs |-> "boot"]

PolicyTasks == {Admin, Writer}

\* Two API handlers change the policies at once; the process is restarted
\* between calls.
NextPolicies ==
  \/ \E env \in Envs : OpenManager(env)
  \/ StopManager
  \/ \E p \in PolicyTasks :
       \/ \E days \in OptionDays : SetGlobalWrite(p, days)
       \/ \E a \in Apps, days \in OptionDays : SetApplicationWrite(p, a, days)
       \/ \E a \in Apps : RemoveApplicationWrite(p, a)
       \/ \E hours \in {1, 24} : SetIntervalWrite(p, hours)
       \/ SaveSerialize(p)
       \/ SaveWrite(p)

SpecPolicies == InitPolicies /\ [][NextPolicies]_vars

\* ----------------------------------------------------------- engine locks -
\* The calls of the engine as the sequence of their lock operations and disk
\* accesses. The locks: the RwLock around the WAL, the Mutex of its current
\* segment, and the RwLocks around the memtable, the SSTable list and the
\* compaction manager (parking_lot: blocking, not reentrant, a reader waits
\* for a writer that is waiting).
Locks == {"wal", "segment", "memtable", "sstables", "compaction"}

Lock(lock, mode, call) == [do |-> "lock", lock |-> lock, mode |-> mode, call |-> call]
Unlock(lock) == [do |-> "unlock", lock |-> lock, mode |-> "", call |-> ""]
Io(call) == [do |-> "io", lock |-> "", mode |-> "", call |-> call]

\* WriteAheadLog::append under wal.read()
append_locks ==
  <<Lock("wal", "read", "append"), Lock("segment", "write", "append"),
    Io("append"), Unlock("segment"), Unlock("wal")>>

\* WriteAheadLog::truncate under wal.read()
truncate_locks ==
  <<Lock("wal", "read", "truncate"), Io("remove_file"), Io("WalSegment::open"),
    Lock("segment", "write", "swap"), Unlock("segment"), Unlock("wal")>>

\* WriteAheadLog::sync under wal.read()
sync_locks ==
  <<Lock("wal", "read", "sync"), Lock("segment", "write", "sync"),
    Io("sync"), Unlock("segment"), Unlock("wal")>>

\* A compact that installs the new list while it still holds the compaction
\* manager.
compact_locks_nested ==
  <<Lock("sstables", "read", "paths"), Unlock("sstables"),
    Io("SSTableReader::open"),
    Lock("compaction", "write", "compact"), Io("compact"),
    Io("SSTableReader::open"),
    Lock("sstables", "write", "swap"), Unlock("sstables"),
    Io("delete_old_sstables"), Unlock("compaction")>>

\* StorageEngine::compact
compact_locks ==
  <<Lock("sstables", "read", "paths"), Unlock("sstables"),
    Io("SSTableReader::open"),
    Lock("compaction", "write", "compact"), Io("compact"), Unlock("compaction"),
    Io("SSTableReader::open"),
    Lock("sstables", "write", "swap"), Unlock("sstables"),
    Lock("compaction", "read", "delete_old_sstables"), Io("delete_old_sstables"),
    Unlock("compaction")>>

\* StorageEngine::flush_memtable up to the decision to compact
flush_memtable_locks ==
  <<Lock("compaction", "write", "allocate_sstable_id"), Unlock("compaction"),
    Lock("memtable", "read", "iter"), Unlock("memtable"),
    Io("finish"), Io("SSTableReader::open"),
    Lock("sstables", "write", "push"), Unlock("sstables"),
    Lock("memtable", "write", "clear"), Unlock("memtable")>>
  \o truncate_locks
  \o <<Lock("sstables", "read", "should_compact"),
       Lock("compaction", "read", "should_compact"),
       Unlock("compaction"), Unlock("sstables")>>

\* StorageEngine::write up to the decision to flush
write_locks ==
  append_locks
  \o <<Lock("memtable", "read", "insert"), Unlock("memtable"),
       Lock("memtable", "read", "should_flush"), Unlock("memtable")>>

\* start_periodic_flush, one tick, up to the decision to flush
periodic_flush_locks == <<Lock("memtable", "read", "is_empty"), Unlock("memtable")>>

\* StorageEngine::query
query_locks ==
  <<Lock("memtable", "read", "scan_device_range"), Unlock("memtable"),
    Lock("sstables", "read", "scan"), Io("scan"), Unlock("sstables")>>

\* StorageEngine::enforce_retention with one SSTable to delete
enforce_retention_locks ==
  <<Lock("sstables", "read", "select"), Io("application_ids"), Unlock("sstables"),
    Lock("sstables", "write", "retain"), Unlock("sstables"), Io("remove_file")>>

\* StorageEngine::delete_device with one SSTable to rewrite
delete_device_locks ==
  <<Lock("memtable", "read", "delete_device"), Unlock("memtable"),
    Lock("sstables", "read", "paths"), Unlock("sstables"),
    Io("SSTableReader::open"), Io("iter_all"),
    Lock("compaction", "write", "allocate_sstable_id"), Unlock("compaction"),
    Io("finish"), Io("SSTableReader::open"),
    Lock("sstables", "write", "swap"), Unlock("sstables"),
    Io("remove_file")>>

\* StorageEngine::shutdown up to the decision to flush
shutdown_locks == <<Lock("memtable", "read", "is_empty"), Unlock("memtable")>>

\* The calls by the branches they take.
FlushCalls == {flush_memtable_locks, flush_memtable_locks \o compact_locks}

WriteCalls == {write_locks} \cup {write_locks \o f : f \in FlushCalls}

PeriodicCalls == {periodic_flush_locks} \cup {periodic_flush_locks \o f : f \in FlushCalls}

ShutdownCalls ==
  {shutdown_locks \o sync_locks} \cup {shutdown_locks \o f \o sync_locks : f \in FlushCalls}

ApiCalls == {query_locks, enforce_retention_locks, delete_device_locks}

\* The instruction a task is at.
Instr(p) == loc[p].program[loc[p].count + 1]

Running(p) == pc[p] = "l_step" /\ loc[p].count < Len(loc[p].program)

Holders(lock, mode) == {q \in Procs : <<lock, mode>> \in loc[q].held}

WaitingWriters(lock) ==
  {q \in Procs : Running(q) /\ loc[q].waiting /\ Instr(q).lock = lock}

CallEngine(p, program) ==
  /\ pc[p] = "idle"
  /\ loc' = [loc EXCEPT ![p] = [LocIdle EXCEPT !.op = "call", !.program = program]]
  /\ ret' = [ret EXCEPT ![p] = NoRet]
  /\ Goto(p, "l_step")
  /\ UNCHANGED <<disk, memory, now, history>>

\* write() and lock(): the caller queues for the lock.
RequestWrite(p) ==
  /\ Running(p) /\ Instr(p).do = "lock" /\ Instr(p).mode = "write"
  /\ ~loc[p].waiting
  /\ loc' = [loc EXCEPT ![p].waiting = TRUE]
  /\ UNCHANGED <<disk, memory, now, pc, ret, history>>

\* write() and lock() return once nobody holds the lock.
AcquireWrite(p) ==
  /\ Running(p) /\ Instr(p).do = "lock" /\ Instr(p).mode = "write"
  /\ loc[p].waiting
  /\ Holders(Instr(p).lock, "read") = {} /\ Holders(Instr(p).lock, "write") = {}
  /\ loc' = [loc EXCEPT ![p].held = @ \cup {<<Instr(p).lock, "write">>},
                        ![p].waiting = FALSE,
                        ![p].count = @ + 1]
  /\ UNCHANGED <<disk, memory, now, pc, ret, history>>

\* read() returns once no writer holds the lock or waits for it.
AcquireRead(p) ==
  /\ Running(p) /\ Instr(p).do = "lock" /\ Instr(p).mode = "read"
  /\ Holders(Instr(p).lock, "write") = {}
  /\ WaitingWriters(Instr(p).lock) = {}
  /\ loc' = [loc EXCEPT ![p].held = @ \cup {<<Instr(p).lock, "read">>},
                        ![p].count = @ + 1]
  /\ UNCHANGED <<disk, memory, now, pc, ret, history>>

\* The guard goes out of scope.
Release(p) ==
  /\ Running(p) /\ Instr(p).do = "unlock"
  /\ loc' = [loc EXCEPT ![p].held = {h \in @ : h[1] # Instr(p).lock},
                        ![p].count = @ + 1]
  /\ UNCHANGED <<disk, memory, now, pc, ret, history>>

\* A read, write, open, sync or removal of a file.
DiskIo(p) ==
  /\ Running(p) /\ Instr(p).do = "io"
  /\ loc' = [loc EXCEPT ![p].count = @ + 1]
  /\ UNCHANGED <<disk, memory, now, pc, ret, history>>

ReturnEngine(p) ==
  /\ pc[p] = "l_step" /\ loc[p].count = Len(loc[p].program)
  /\ Return(p, "Ok", 0)
  /\ UNCHANGED <<disk, memory, now, written, crashes, faults, deletes>>

LockStep(p) ==
  \/ RequestWrite(p) \/ AcquireWrite(p) \/ AcquireRead(p)
  \/ Release(p) \/ DiskIo(p) \/ ReturnEngine(p)

\* An ingest handler, the periodic flush task and an API handler run in
\* parallel; the API handler also makes the call of shutdown.
NextLocks ==
  \/ \E program \in WriteCalls : CallEngine(Writer, program)
  \/ \E program \in PeriodicCalls : CallEngine(Flusher, program)
  \/ \E program \in ApiCalls \cup ShutdownCalls : CallEngine(Admin, program)
  \/ \E p \in Procs : LockStep(p)

SpecLocks == Init /\ [][NextLocks]_vars

\* A task that cannot take its next step until another task releases a lock.
Blocked(p) ==
  /\ Running(p) /\ Instr(p).do = "lock"
  /\ IF Instr(p).mode = "write"
     THEN /\ loc[p].waiting
          /\ Holders(Instr(p).lock, "read") \cup Holders(Instr(p).lock, "write") # {}
     ELSE Holders(Instr(p).lock, "write") \cup WaitingWriters(Instr(p).lock) # {}

\* Each task makes one call: a write and a tick of the periodic flush that
\* flush and compact, and a query, enforce_retention, delete_device or
\* shutdown.
CallOnce(p, program) == ret[p] = NoRet /\ CallEngine(p, program)

NextLocksOnce ==
  \/ CallOnce(Writer, write_locks \o flush_memtable_locks \o compact_locks)
  \/ CallOnce(Flusher, periodic_flush_locks \o flush_memtable_locks \o compact_locks)
  \/ \E program \in ApiCalls \cup {shutdown_locks \o sync_locks} : CallOnce(Admin, program)
  \/ \E p \in Procs : LockStep(p)

\* The threads of the runtime are scheduled fairly: a task that can take a
\* step takes it.
SpecLocksFair ==
  Init /\ [][NextLocksOnce]_vars /\ \A p \in Procs : WF_vars(LockStep(p))

\* ------------------------------------------------------- SSTable entries -
\* The LZ4 encoder, as a run-length coding: each run of equal bytes becomes
\* its length and the byte.
RECURSIVE compress(_)
compress(bytes) ==
  IF bytes = <<>> THEN <<>>
  ELSE LET run == CHOOSE n \in 1..Len(bytes) :
                    /\ \A i \in 1..n : bytes[i] = bytes[1]
                    /\ (n = Len(bytes) \/ bytes[n + 1] # bytes[1])
       IN <<run, bytes[1]>> \o compress(SubSeq(bytes, run + 1, Len(bytes)))

\* The LZ4 decoder: None for Err.
RECURSIVE decompress(_)
decompress(data) ==
  IF data = <<>> THEN Some(<<>>)
  ELSE IF Len(data) < 2 \/ data[1] < 1 THEN None
  ELSE LET rest == decompress(SubSeq(data, 3, Len(data)))
       IN IF rest = None THEN None
          ELSE Some([i \in 1..data[1] |-> data[2]] \o rest[1])

\* SSTableWriter::finish, one entry: [compressed_size(4) | compressed_data(N)
\* | checksum(4)].
write_entry(frame) ==
  LET compressed == compress(serialize_frame(frame))
  IN to_le_bytes(Len(compressed), 4) \o compressed \o to_le_bytes(crc32(compressed), 4)

\* SSTableReader::read_frame: None for Err.
read_frame(bytes) ==
  IF Len(bytes) < 4 \/ Len(bytes) < 8 + from_le_bytes(SubSeq(bytes, 1, 4)) THEN None
  ELSE LET compressed_size == from_le_bytes(SubSeq(bytes, 1, 4))
           compressed_data == SubSeq(bytes, 5, 4 + compressed_size)
           stored_checksum == from_le_bytes(SubSeq(bytes, 5 + compressed_size,
                                                   8 + compressed_size))
       IN IF stored_checksum # crc32(compressed_data) THEN None
          ELSE IF decompress(compressed_data) = None THEN None
          ELSE deserialize_frame(decompress(compressed_data)[1])

\* ------------------------------------------------------------ round trips -
\* A frame of any variant is written as a WAL record and as an SSTable entry
\* and read back from each.
PayloadValues ==
  {JsonNull, JsonNumber(7), JsonObject(<<>>), JsonObject(<<<<1, 90>>, <<2, 21>>>>),
   JsonObject(<<<<2, 2>>>>)}

RoundTripFrames ==
  {[FrameAt(d, t, "Uplink", a) EXCEPT !.decoded_payload = v] :
     d \in {DevA, DevUpperA}, t \in {DateTime(1, 0), DateTime(2, 5)}, a \in Apps,
     v \in {None} \cup {Some(x) : x \in PayloadValues}}
  \cup {FrameAt(d, t, k, a) :
          d \in {DevA, DevUpperA}, t \in {DateTime(1, 0), DateTime(2, 5)}, a \in Apps,
          k \in {"Downlink", "Status"}}
  \cup {FrameAt(d, t, k, "") :
          d \in {DevA, DevUpperA}, t \in {DateTime(1, 0), DateTime(2, 5)},
          k \in {"JoinRequest", "JoinAccept"}}

RoundTripStart(p, f) ==
  /\ pc[p] = "idle"
  /\ loc' = [loc EXCEPT ![p] = [LocIdle EXCEPT !.op = "round_trip", !.frame = f]]
  /\ ret' = [ret EXCEPT ![p] = NoRet]
  /\ Goto(p, "t_wal")
  /\ UNCHANGED <<disk, memory, now, history>>

\* append, then replay_segment over the record
RoundTripWal(p) ==
  /\ pc[p] = "t_wal"
  /\ loc' = [loc EXCEPT ![p].results = replay_segment(WalEntry(loc[p].frame)).frames]
  /\ Goto(p, "t_sstable")
  /\ UNCHANGED <<disk, memory, now, ret, history>>

\* SSTableWriter::finish, then read_frame over the entry
RoundTripSSTable(p) ==
  /\ pc[p] = "t_sstable"
  /\ IF read_frame(write_entry(loc[p].frame)) = None
     THEN Return(p, "Err", 0)
     ELSE Return(p, "Ok", loc[p].results \o read_frame(write_entry(loc[p].frame)))
  /\ UNCHANGED <<disk, memory, now, written, crashes, faults, deletes>>

NextRoundTrip ==
  \/ \E f \in RoundTripFrames : RoundTripStart(Admin, f)
  \/ RoundTripWal(Admin)
  \/ RoundTripSSTable(Admin)

SpecRoundTrip == Init /\ [][NextRoundTrip]_vars

\* ------------------------------------------------- flush and compact run -
\* One ingest task writes frames of distinct timestamps; the memtable limit
\* is so small that each frame is flushed before the next write arrives.
ScenarioWrite(f) ==
  /\ written < MaxScenarioWrites
  /\ memData = {}
  /\ BeginWrite(Writer, f)

ScenarioFrames ==
  {NewFrame(d, t, "Uplink", "app1") : d \in {DevA, DevB}, t \in {written + 1, 20 - written}}

\* query returns the written frames of the device, each once, in timestamp
\* order.
ScenarioResult(d) ==
  LET result == query(d, None, None)
      frames == {f \in acked : DevEuiEq(f.dev_eui, d)}
  IN /\ Range(result) = frames
     /\ Len(result) = Cardinality(frames)
     /\ \A i, j \in DOMAIN result : i < j => result[i].timestamp <= result[j].timestamp

NextScenario ==
  \/ AllIdle /\ \E f \in ScenarioFrames : ScenarioWrite(f)
  \/ AllIdle /\ PeriodicFlush(Flusher)
  \/ WriteStep(Writer)
  \/ FlushStep(Flusher)

SpecScenario == Init /\ [][NextScenario]_vars

\* --------------------------------------------------------------- SpecWal -
\* The segment file holds a record that a release with WAL_VERSION - 1 wrote.
OldVersionEntry(f) ==
  /\ AllIdle /\ walFile = <<>> /\ written = 0 /\ crashes = 0 /\ faults = 0
  /\ walFile' = EntryBytes(WAL_VERSION - 1, f)
  /\ UNCHANGED <<sstFiles, policyState, memory, now, tasks, history>>

\* The storage changes one byte of the segment file.
CorruptByte(i) ==
  /\ faults < MaxFaults
  /\ faults' = faults + 1
  /\ i \in DOMAIN walFile
  /\ walFile' = [walFile EXCEPT ![i] = (walFile[i] + 1) % 256]
  /\ UNCHANGED <<sstFiles, policyState, memory, now, tasks, acked, unflushed,
                 written, crashes, deletes>>

\* The process dies in wal.append when the first n bytes of the record are
\* in the file, and StorageEngine::new runs over the data directory.
CrashInAppend(p, n) ==
  /\ pc[p] = "w_append" /\ walLinked
  /\ crashes < MaxCrashes
  /\ crashes' = crashes + 1
  /\ n \in 1..(Len(WalEntry(loc[p].frame)) - 1)
  /\ walFile' = walFile \o SubSeq(WalEntry(loc[p].frame), 1, n)
  /\ walLinked' = TRUE
  /\ memData' = RecoveredMemtable(replay(walFile'))
  /\ memSeq' = Len(replay(walFile'))
  /\ memSize' = Len(replay(walFile')) * EntrySize
  /\ sstables' = open_all_sstables(sstFiles)
  /\ nextSstId' = MaxOf(Range(open_all_sstables(sstFiles))) + 1
  /\ registry' = RebuiltRegistry(sstFiles, replay(walFile'))
  /\ pc' = [q \in Procs |-> "idle"]
  /\ loc' = [q \in Procs |-> LocIdle]
  /\ ret' = [q \in Procs |-> NoRet]
  /\ ReloadPolicies
  /\ UNCHANGED <<sstFiles, now, acked, unflushed, written, faults, deletes>>

\* Calls run one after another: writes of three frames; a record of an older
\* release in front; one byte of the file changed; a crash inside an append
\* or between calls.
WalFrames ==
  {FrameAt(DevA, DateTime(1, 0), "Uplink", "app1"),
   FrameAt(DevB, DateTime(2, 0), "JoinRequest", "")}

NextWal ==
  \/ \E f \in WalFrames : OldVersionEntry(f)
  \/ AllIdle /\ \E f \in WalFrames : StartWrite(Writer, f)
  \/ WriteStep(Writer)
  \/ FlushAllocate(Writer) \/ FlushSnapshot(Writer) \/ FlushFinish(Writer)
  \/ FlushOpen(Writer) \/ FlushClear(Writer) \/ TruncateRemove(Writer)
  \/ TruncateInstall(Writer) \/ FlushCheckCompact(Writer)
  \/ AllIdle /\ \E i \in DOMAIN walFile : CorruptByte(i)
  \/ \E n \in 1..30 : CrashInAppend(Writer, n)
  \/ AllIdle /\ CrashReopen

SpecWal == Init /\ [][NextWal]_vars

\* ----------------------------------------------------------- SpecWriters -
\* Two ingest handlers write frames of one device within one microsecond, in
\* parallel with each other and with the periodic flush task. MaxEqualWrites
\* writes leave the number of SSTables below the compaction threshold.
Writers == {Writer, Admin}

EqualFrames ==
  {FrameAt(DevA, DateTime(1, 0), "Uplink", "app1"),
   FrameAt(DevUpperA, DateTime(1, 1), "Uplink", "app1")}

NextWriters ==
  \/ written < MaxEqualWrites /\ \E p \in Writers, f \in EqualFrames : StartWrite(p, f)
  \/ \E p \in Writers : WalAppend(p) \/ InsertFetchAdd(p) \/ InsertData(p) \/ CheckFlush(p)
  \/ PeriodicFlush(Flusher)
  \/ \E p \in Procs :
       \/ FlushAllocate(p) \/ FlushSnapshot(p) \/ FlushFinish(p) \/ FlushOpen(p)
       \/ FlushClear(p) \/ TruncateRemove(p) \/ TruncateInstall(p) \/ FlushCheckCompact(p)

SpecWriters == Init /\ [][NextWriters]_vars

\* --------------------------------------------------------- QueryExecutor -
\* MAX_QUERY_RESULTS (10_000 in the source), scaled down.
MAX_QUERY_RESULTS == 2

\* The length of a device identifier (16 in the source), scaled down.
DevEuiLen == 1

\* char::is_ascii_hexdigit
is_ascii_hexdigit(c) ==
  \/ c \in 48..57
  \/ c \in 65..70
  \/ c \in 97..102

\* DevEui::validate
validate(dev_eui) ==
  /\ Len(dev_eui) = DevEuiLen
  /\ \A i \in DOMAIN dev_eui : is_ascii_hexdigit(dev_eui[i])

\* LoraDbError values: the variant and what its message says.
LoraDbError(kind, message) == [kind |-> kind, message |-> message]

\* FilterClause
Between(start, end) == [kind |-> "Between", start |-> start, end |-> end, duration |-> 0]
Since(start) == [kind |-> "Since", start |-> start, end |-> start, duration |-> 0]
Last(duration) ==
  [kind |-> "Last", start |-> DateTime(0, 0), end |-> DateTime(0, 0), duration |-> duration]

\* SelectClause
Select(kind) == [kind |-> kind, fields |-> {}]
Fields(fields) == [kind |-> "Fields", fields |-> fields]

\* Query::new
Query(select, from, filter, limit) ==
  [select |-> select, from |-> from, filter |-> filter, limit |-> limit]

\* Query::time_range, with Utc::now() read from the clock
time_range(q) ==
  IF q.filter = None THEN <<None, None>>
  ELSE LET filter == q.filter[1]
       IN CASE filter.kind = "Between" -> <<Some(filter.start), Some(filter.end)>>
            [] filter.kind = "Since" -> <<Some(filter.start), None>>
            [] filter.kind = "Last" -> <<Some(DateTime(now - filter.duration, 0)), None>>

Min(a, b) == IF a <= b THEN a ELSE b

\* A cut that keeps one frame more than the limit.
truncate_one_late(frames, len) ==
  IF Len(frames) > len THEN SubSeq(frames, 1, len + 1) ELSE frames

\* Vec::truncate
truncate(frames, len) == IF Len(frames) > len THEN SubSeq(frames, 1, len) ELSE frames

Matches(frame, select) ==
  CASE select.kind = "Uplink" -> frame.kind = "Uplink"
    [] select.kind = "Downlink" -> frame.kind = "Downlink"
    [] select.kind = "Join" -> frame.kind \in {"JoinRequest", "JoinAccept"}
    [] select.kind = "Status" -> frame.kind = "Status"
    [] OTHER -> TRUE

\* QueryExecutor::filter_frames
filter_frames(frames, select) == SelectSeq(frames, LAMBDA f : Matches(f, select))

\* serde_json::to_value and unwrap_frame_variant: the fields of the variant
\* and its name as frame_type.
to_json(frame) ==
  [frame_type |-> frame.kind, dev_eui |-> frame.dev_eui,
   received_at |-> timestamp(frame), application_id |-> frame.application_id]

\* QueryExecutor::project_fields, for top-level fields
project_fields(json, select) ==
  IF select.kind = "Fields"
  THEN [field \in select.fields \cap DOMAIN json |-> json[field]]
  ELSE json

\* A guard that lets every query through.
TimeFilterIgnored(q) == FALSE

\* query.filter.is_none()
TimeFilterMissing(q) == q.filter = None

\* execute up to the call of the engine's query: the time filter guard, the
\* device identifier and the time range.
Execute(p, q) ==
  /\ pc[p] = "idle"
  /\ IF TimeFilterMissing(q)
     THEN /\ loc' = [loc EXCEPT ![p] = LocIdle]
          /\ pc' = [pc EXCEPT ![p] = "idle"]
          /\ ret' = [ret EXCEPT ![p] =
                       [op |-> "execute", status |-> "Err",
                        value |-> LoraDbError("QueryExecutionError",
                                              "Time filter is required")]]
     ELSE IF ~validate(q.from)
     THEN /\ loc' = [loc EXCEPT ![p] = LocIdle]
          /\ pc' = [pc EXCEPT ![p] = "idle"]
          /\ ret' = [ret EXCEPT ![p] =
                       [op |-> "execute", status |-> "Err",
                        value |-> LoraDbError("QueryExecutionError", "Invalid DevEUI")]]
     ELSE /\ loc' = [loc EXCEPT ![p] = [LocIdle EXCEPT !.op = "execute",
                                                       !.query = q,
                                                       !.dev_eui = q.from,
                                                       !.start_time = time_range(q)[1],
                                                       !.end_time = time_range(q)[2]]]
          /\ ret' = [ret EXCEPT ![p] = NoRet]
          /\ Goto(p, "q_memtable")
  /\ UNCHANGED <<disk, memory, now, history>>

\* An execute that applies the SELECT clause before the limit.
ExecuteFinishFilterFirst(p) ==
  /\ pc[p] = "x_limit"
  /\ LET q == loc[p].query
         effective_limit ==
           Min(IF q.limit = None THEN MAX_QUERY_RESULTS ELSE q.limit[1],
               MAX_QUERY_RESULTS)
         frames == truncate(filter_frames(loc[p].results, q.select), effective_limit)
         json_frames ==
           [i \in DOMAIN frames |-> project_fields(to_json(frames[i]), q.select)]
     IN Return(p, "Ok", [dev_eui |-> q.from, total_frames |-> Len(json_frames),
                         frames |-> json_frames])
  /\ UNCHANGED <<disk, memory, now, written, crashes, faults, deletes>>

\* execute after query: the limit, the SELECT clause and the conversion.
ExecuteFinish(p) ==
  /\ pc[p] = "x_limit"
  /\ LET q == loc[p].query
         effective_limit ==
           Min(IF q.limit = None THEN MAX_QUERY_RESULTS ELSE q.limit[1],
               MAX_QUERY_RESULTS)
         frames == filter_frames(truncate(loc[p].results, effective_limit), q.select)
         json_frames ==
           [i \in DOMAIN frames |-> project_fields(to_json(frames[i]), q.select)]
     IN Return(p, "Ok", [dev_eui |-> q.from, total_frames |-> Len(json_frames),
                         frames |-> json_frames])
  /\ UNCHANGED <<disk, memory, now, written, crashes, faults, deletes>>

\* ----------------------------------------------------------- SpecExecute -
\* Calls run one after another: writes of three frames of one device, one of
\* them a downlink; flushes; and execute with and without a filter, with
\* and without a limit, for a valid and an invalid identifier.
DevG == <<103>>

ExecuteFrames ==
  {FrameAt(DevA, DateTime(1, 0), "Uplink", "app1"),
   FrameAt(DevA, DateTime(1, 1), "Downlink", "app1"),
   FrameAt(DevUpperA, DateTime(2, 0), "Uplink", "app1")}

Queries ==
  LET Selects == {Select("All"), Select("Uplink"), Fields({"dev_eui", "rssi"})}
      Filters == {None, Some(Since(DateTime(1, 0))),
                  Some(Between(DateTime(2, 0), DateTime(2, 0))),
                  Some(Last(1)), Some(Last(3))}
      Limits == {None, Some(1), Some(3)}
  IN {Query(select, from, filter, limit) :
        select \in Selects, from \in {DevA, DevG}, filter \in Filters, limit \in Limits}

NextExecute ==
  \/ AllIdle /\ \E f \in ExecuteFrames : StartWrite(Writer, f)
  \/ AllIdle /\ PeriodicFlush(Flusher)
  \/ AllIdle /\ \E q \in Queries : Execute(Admin, q)
  \/ WriteStep(Writer)
  \/ \E p \in Flushers : FlushStep(p)
  \/ QueryStep(Admin)
  \/ ExecuteFinish(Admin)

SpecExecute == Init /\ [][NextExecute]_vars

\* ------------------------------------------------------------- SpecQuery -
\* Calls run one after another: writes of two devices, one under two
\* spellings, two of the frames within the same microsecond; flushes and
\* compactions; and queries with every pair of bounds.
QueryFrames ==
  {FrameAt(DevA, DateTime(1, 0), "Uplink", "app1"),
   FrameAt(DevA, DateTime(1, 1), "Uplink", "app1"),
   FrameAt(DevUpperA, DateTime(2, 0), "Uplink", "app1"),
   FrameAt(DevB, DateTime(1, 0), "Uplink", "app1")}

QueryTimes == {None} \cup {Some(DateTime(m, n)) : m \in Timestamps, n \in {0, 1}}

NextQuery ==
  \/ AllIdle /\ \E f \in QueryFrames : StartWrite(Writer, f)
  \/ AllIdle /\ PeriodicFlush(Flusher)
  \/ AllIdle /\ \E d \in {DevA, DevB}, start_time \in QueryTimes, end_time \in QueryTimes :
                  StartQuery(Admin, d, start_time, end_time)
  \/ WriteStep(Writer)
  \/ \E p \in Flushers : FlushStep(p)
  \/ QueryStep(Admin)

SpecQuery == Init /\ [][NextQuery]_vars

\* ------------------------------------------------------------ SpecWriter -
\* An SSTableWriter driven directly, as its unit tests drive it: any key in
\* any order, then finish.
WriterKeys ==
  {MemtableKey(d, DateTime(t, 0), q) : d \in {DevA, DevB}, t \in Timestamps, q \in {0, 1}}

\* SSTableWriter::new for the first file of an empty directory
StartWriter(p) ==
  /\ pc[p] = "idle"
  /\ sstFiles = {}
  /\ loc' = [loc EXCEPT ![p] = [LocIdle EXCEPT !.op = "sstable_writer", !.id = nextSstId]]
  /\ ret' = [ret EXCEPT ![p] = NoRet]
  /\ Goto(p, "sw_add")
  /\ UNCHANGED <<disk, memory, now, history>>

\* writer.add(key, frame); loc.frame keeps the entry that was offered.
WriterAdd(p) ==
  /\ pc[p] = "sw_add"
  /\ loc[p].count < MaxAdds
  /\ \E key \in WriterKeys :
       LET entry == [key |-> key,
                     frame |-> NewFrame(key.dev_eui, key.timestamp, "Uplink", "app1")]
           w == add(loc[p].entries, entry)
       IN /\ loc' = [loc EXCEPT ![p].entries = w.entries, ![p].frame = entry,
                                ![p].count = @ + 1]
          /\ ret' = [ret EXCEPT ![p] = [op |-> "add", value |-> 0,
                                        status |-> IF w.ok THEN "Ok" ELSE "Err"]]
  /\ UNCHANGED <<disk, memory, now, pc, history>>

\* writer.finish()
WriterFinish(p) ==
  /\ pc[p] = "sw_add"
  /\ IF loc[p].entries = <<>>
     THEN /\ Return(p, "Err", 0)
          /\ UNCHANGED sstFiles
     ELSE /\ sstFiles' = PutFile(sstFiles, SSTableFile(loc[p].id, loc[p].entries, TRUE))
          /\ Return(p, "Ok", 0)
  /\ UNCHANGED <<walFile, policyState, memory, now, written, crashes, faults, deletes>>

NextWriter == StartWriter(Admin) \/ WriterAdd(Admin) \/ WriterFinish(Admin)

SpecWriter == Init /\ [][NextWriter]_vars

\* ---------------------------------------------------------- SpecRetention -
\* Calls run one after another: writes of one device under two
\* applications and join requests of another (they carry no application),
\* flushes, policy changes, the passing of time, and enforce_retention.
RetentionFrames ==
  {NewFrame(DevA, 1, "Uplink", "app1"), NewFrame(DevA, 2, "Uplink", "app2"),
   NewFrame(DevB, 1, "JoinRequest", "")}

NextRetention ==
  \/ AllIdle /\ \E f \in RetentionFrames : StartWrite(Writer, f)
  \/ AllIdle /\ PeriodicFlush(Flusher)
  \/ AllIdle /\ \E days \in OptionDays : SetGlobal(days)
  \/ AllIdle /\ \E a \in Apps, days \in OptionDays : SetApplication(a, days)
  \/ AllIdle /\ \E a \in Apps : RemoveApplication(a)
  \/ AllIdle /\ Tick
  \/ AllIdle /\ StartRetention(Admin)
  \/ WriteStep(Writer)
  \/ \E p \in Flushers : FlushStep(p)
  \/ RetentionStep(Admin)

SpecRetention == Init /\ [][NextRetention]_vars

\* ----------------------------------------------------------------- claims -
\* The step with which a call of task p returns Ok.
ReturnsOk(p, op) ==
  /\ pc[p] # "idle" /\ pc'[p] = "idle"
  /\ loc[p].op = op
  /\ ret'[p].status = "Ok"

\* The step with which flush_memtable, run by task p, returns Ok.
FlushReturnsOk(p) ==
  /\ pc[p] \in {"f_check", "c_delete"} /\ pc'[p] = "idle"
  /\ ret'[p].status = "Ok"

MemtableFrames == {e.frame : e \in memData}

ListedFrames == UNION {Range(iter_all(sstFiles, sstables[i])) : i \in DOMAIN sstables}

StoredOnDisk == UNION {Range(SelectFrames(f.entries)) : f \in {g \in sstFiles : g.complete}}

Ascending(frames) ==
  \A i \in 1..(Len(frames) - 1) : TimeLeq(timestamp(frames[i]), timestamp(frames[i + 1]))

\* C1: every frame whose write has returned Ok is returned by
\* query(device, None, None) on a fresh engine opened over the data
\* directory as it is, at any later point and for every interleaving of
\* writes and flushes.
WriteDurability ==
  \A f \in acked : Occurrences(RecoveredQuery(f.dev_eui), f) >= 1

\* C2: the frames written with no flush since their write began are each
\* returned exactly once by the query of a reopened engine, and the result
\* ascends by timestamp.
RecoveryCompleteness ==
  \A f \in unflushed :
    /\ Occurrences(RecoveredQuery(f.dev_eui), f) = 1
    /\ Ascending(RecoveredQuery(f.dev_eui))

\* C2 is met: the engine has been dropped and reopened with two unflushed
\* frames written in descending timestamp order, and the query returns them
\* in ascending order.
RecoveryCompletenessWitness ==
  /\ crashes = 1
  /\ AllIdle
  /\ \E f, g \in unflushed :
       /\ f.id < g.id /\ g.timestamp < f.timestamp
       /\ query(f.dev_eui, None, None) = <<g, f>>
       /\ RecoveredQuery(f.dev_eui) = <<g, f>>

\* C3: when flush_memtable returns Ok, a reopened engine returns every
\* frame written before the flush exactly once, and WAL replay returns none
\* of them.
WalTruncationCorrectness ==
  [][\A p \in Flushers :
       FlushReturnsOk(p) =>
         \A f \in loc[p].pre :
           /\ Occurrences(QueryOn(RecoveredMemtable(replay(walFile')),
                                  open_all_sstables(sstFiles'), sstFiles',
                                  f.dev_eui, None, None), f) = 1
           /\ f \notin Range(replay(walFile'))]_vars

\* C4: every frame held in the memtable has a record in the WAL, and a
\* written frame whose WAL record is gone is in an SSTable, in every
\* reachable state of writes running in parallel with flushes.
WalCoverage ==
  /\ \A f \in MemtableFrames : f \in Range(replay(walFile))
  /\ \A f \in acked : f \in Range(replay(walFile)) \/ f \in StoredOnDisk

\* C6: when write returns Ok its frame is in the WAL and in the memtable, or
\* in a listed SSTable; and a frame enters the memtable only when its WAL
\* record exists.
WriteOrdering ==
  [][/\ ReturnsOk(Writer, "write") =>
          \/ /\ loc[Writer].frame \in Range(replay(walFile'))
             /\ loc[Writer].frame \in MemtableFrames'
          \/ loc[Writer].frame \in ListedFrames'
     /\ (pc[Writer] = "w_insert" /\ pc'[Writer] = "w_check") =>
          loc[Writer].frame \in Range(replay(walFile))]_vars

\* C5: a step of flush_memtable that changes the memtable or the WAL is
\* taken with the new SSTable complete on disk and its reader in the list;
\* a flush that fails to write or to reopen the SSTable returns the error
\* with the memtable and the WAL as they were and the SSTable unlisted.
FlushOrdering ==
  [][\A p \in Flushers :
       pc[p] \in FlushPcs =>
         /\ (memData' # memData \/ walFile' # walFile \/ walLinked' # walLinked) =>
              /\ CanOpen(sstFiles, loc[p].id)
              /\ loc[p].id \in Range(sstables)
         /\ (pc[p] \in {"f_finish", "f_open"} /\ pc'[p] = "idle") =>
              /\ ret'[p].status = "Err"
              /\ UNCHANGED <<memData, memSeq, memSize, walFile, walLinked>>
              /\ loc[p].id \notin Range(sstables')]_vars

\* C5 is met: after one flush has failed and left its file unfinished, a
\* later flush has cleared the memtable, its SSTable being complete and
\* listed.
FlushOrderingWitness ==
  \E p \in Flushers :
    /\ pc[p] = "f_trunc"
    /\ memData = {}
    /\ faults = 1
    /\ \E f \in sstFiles : ~f.complete
    /\ CanOpen(sstFiles, loc[p].id)
    /\ loc[p].id \in Range(sstables)

\* C7: when delete_device(d) returns Ok, query(d, None, None) returns no
\* frame, in whichever letter case d was written and is deleted.
DeleteCompleteness ==
  [][\A d \in Devices :
       (ReturnsOk(Admin, "delete_device") /\ loc[Admin].dev_eui = d) =>
         QueryOn(memData', sstables', sstFiles', d, None, None) = <<>>]_vars

\* C8: when delete_device(d) returns Ok, the device registry holds no entry
\* for d.
DeleteRegistry ==
  [][ReturnsOk(Admin, "delete_device") =>
       \A r \in registry' : r.key # normalized(loc[Admin].dev_eui)]_vars

\* C9: the number delete_device(d) returns is the number of frames of d
\* held in the memtable and the listed SSTables when it was called.
DeleteCount ==
  [][ReturnsOk(Admin, "delete_device") =>
       ret'[Admin].value = loc[Admin].stored]_vars

\* The retention periods of the policies that cover a set of applications:
\* the application's own policy, else the global default.
CoveringDays(apps) ==
  {polApps[a][1][1] : a \in {b \in apps : polApps[b] # None /\ polApps[b] # Some(None)}}
  \cup (IF polGlobal # None /\ \E a \in apps : polApps[a] = None THEN {polGlobal[1]} ELSE {})

\* An SSTable has a cutoff unless one of its applications is kept forever or
\* no policy covers it.
HasCutoff(id) ==
  LET apps == application_ids(FileEntries(sstFiles, id))
  IN (\A a \in apps : polApps[a] # Some(None)) /\ CoveringDays(apps) # {}

Cutoff(id) == now - MaxOf(CoveringDays(application_ids(FileEntries(sstFiles, id))))

\* The listed SSTables whose newest frame, or whose recorded maximum
\* timestamp, is older than their cutoff.
Overdue ==
  {id \in Range(sstables) :
     /\ HasCutoff(id)
     /\ \/ max_timestamp(FileEntries(sstFiles, id)) < Cutoff(id)
        \/ \A f \in Range(iter_all(sstFiles, id)) : f.timestamp < Cutoff(id)}

\* C10: when enforce_retention returns, no SSTable left in the list has a
\* maximum timestamp older than its cutoff: now minus the longest period
\* among the policies covering its applications.
RetentionGranularity ==
  [][ReturnsOk(Admin, "enforce_retention") => Overdue' = {}]_vars

\* C10 is met: of two flushed SSTables enforce_retention has removed one and
\* left one that has a cutoff.
RetentionGranularityWitness ==
  /\ AllIdle
  /\ ret[Admin] = [op |-> "enforce_retention", status |-> "Ok", value |-> 0]
  /\ nextSstId = 3
  /\ Len(sstables) = 1
  /\ HasCutoff(sstables[1])
  /\ Cardinality(sstFiles) = 1

\* The policy an application is under: its own days, else global_days; None
\* is "keep forever".
EffectiveDays(a) == IF polApps[a] # None THEN polApps[a][1] ELSE polGlobal

\* C11: enforce_retention removes an SSTable only if every application the
\* SSTable contains is under a policy with a period, and the SSTable's
\* maximum timestamp is older than now minus that period: no application's
\* data is dropped earlier than its own policy allows.
RetentionConservative ==
  [][\A id \in Range(sstables) :
       (pc[Admin] = "r_delete" /\ id \notin Range(sstables'))
       => \A a \in application_ids(FileEntries(sstFiles, id)) :
            /\ EffectiveDays(a) # None
            /\ max_timestamp(FileEntries(sstFiles, id)) < now - EffectiveDays(a)[1]]_vars

\* The (device, timestamp) pair an entry is merged under: the identifier
\* as MemtableKey normalizes it, and the frame's timestamp in whole microseconds.
Pair(frame) == <<normalized(frame.dev_eui), timestamp_micros(timestamp(frame))>>

Pairs(frames) == {Pair(frames[i]) : i \in DOMAIN frames}

\* The frames compact reads from its inputs, in input order.
CompactInputs(p) ==
  Concat([i \in DOMAIN loc[p].paths |-> iter_all(sstFiles, loc[p].paths[i])])

\* The step of compact that writes the merged SSTable (its id is nextSstId).
CompactWrites(p) == pc[p] = "c_compact" /\ pc'[p] = "c_install"

\* C12: the (device, timestamp) pairs of the SSTable written by compact
\* are exactly the pairs found in its inputs, and each pair appears once in
\* the output.
CompactionUnionDedup ==
  [][\A p \in Flushers :
       CompactWrites(p) =>
         LET out == iter_all(sstFiles', nextSstId)
         IN /\ Pairs(out) = Pairs(CompactInputs(p))
            /\ Len(out) = Cardinality(Pairs(out))]_vars

\* C12 is met: compact has written a merged SSTable of two or more pairs
\* that has fewer entries than its inputs had together.
CompactionUnionDedupWitness ==
  \E p \in Flushers :
    /\ pc[p] = "c_install"
    /\ Len(iter_all(sstFiles, loc[p].id)) >= 2
    /\ Len(CompactInputs(p)) > Len(iter_all(sstFiles, loc[p].id))
    /\ Pairs(iter_all(sstFiles, loc[p].id)) = Pairs(CompactInputs(p))

\* C13: of the input entries that share a (device, timestamp) pair, the
\* SSTable written by compact holds the one that is last in input order.
CompactionKeepsLast ==
  [][\A p \in Flushers :
       CompactWrites(p) =>
         LET out == iter_all(sstFiles', nextSstId)
             all == CompactInputs(p)
         IN \A k \in DOMAIN out :
              \E i \in DOMAIN all :
                /\ out[k] = all[i]
                /\ \A j \in DOMAIN all : Pair(all[j]) = Pair(all[i]) => j <= i]_vars

\* C13 is met: two inputs held different frames under one pair, and the
\* merged SSTable holds the frame of the later input.
CompactionKeepsLastWitness ==
  \E p \in Flushers :
    /\ pc[p] = "c_install"
    /\ \E i, j \in DOMAIN CompactInputs(p) :
         /\ i < j
         /\ CompactInputs(p)[i] # CompactInputs(p)[j]
         /\ Pair(CompactInputs(p)[i]) = Pair(CompactInputs(p)[j])
         /\ \A m \in DOMAIN CompactInputs(p) :
              Pair(CompactInputs(p)[m]) = Pair(CompactInputs(p)[j]) => m <= j
         /\ CompactInputs(p)[j] \in Range(iter_all(sstFiles, loc[p].id))
         /\ CompactInputs(p)[i] \notin Range(iter_all(sstFiles, loc[p].id))

\* C14: add returns Err exactly for a key that is not greater than the last
\* accepted key and then leaves the writer as it was, else it pushes the
\* entry; and every SSTable file on disk has strictly ascending consecutive
\* keys.
SSTableSortInvariant ==
  [][/\ (pc[Admin] = "sw_add" /\ pc'[Admin] = "sw_add") =>
          LET entries == loc[Admin].entries
              offered == loc'[Admin].frame
          IN IF entries # <<>> /\ ~KeyLess(entries[Len(entries)].key, offered.key)
             THEN ret'[Admin].status = "Err" /\ loc'[Admin].entries = entries
             ELSE ret'[Admin].status = "Ok" /\ loc'[Admin].entries = Append(entries, offered)
     /\ \A f \in sstFiles' : StrictlyAscending(f.entries)]_vars

\* C14 is met: a writer holding two entries has just refused a key equal to
\* its last one.
SSTableSortInvariantWitness ==
  /\ pc[Admin] = "sw_add"
  /\ ret[Admin] = [op |-> "add", status |-> "Err", value |-> 0]
  /\ Len(loc[Admin].entries) = 2
  /\ loc[Admin].frame.key = loc[Admin].entries[2].key

\* The frames of device d, held in the memtable or in a listed SSTable,
\* whose timestamp lies in the inclusive range (an absent bound is open).
FramesInRange(d, start_time, end_time) ==
  {f \in MemtableFrames \cup ListedFrames :
     /\ normalized(f.dev_eui) = normalized(d)
     /\ start_time = None \/ TimeLeq(start_time[1], timestamp(f))
     /\ end_time = None \/ TimeLeq(timestamp(f), end_time[1])}

\* C15: query(d, start, end) returns exactly the frames of d in the memtable
\* or a listed SSTable whose timestamp lies in [start, end], in
\* non-decreasing timestamp order.
QueryResult ==
  [][ReturnsOk(Admin, "query") =>
       /\ Range(ret'[Admin].value)
            = FramesInRange(loc[Admin].dev_eui, loc[Admin].start_time, loc[Admin].end_time)
       /\ Ascending(ret'[Admin].value)]_vars

\* C16: every SSTable a step writes has a filter that answers true for every
\* device with an entry in it, under every spelling of the identifier, so
\* scan returns every frame of the device that the SSTable holds.
BloomSoundness ==
  [][\A f \in {g \in sstFiles' \ sstFiles : g.complete}, d \in Devices :
       LET held == {f.entries[i].frame : i \in {j \in DOMAIN f.entries :
                                                 f.entries[j].key.dev_eui = normalized(d)}}
       IN held # {} => /\ might_contain(f.entries, d)
                       /\ held \subseteq Range(scan(f.entries, d, None, None))]_vars

\* C16 is met: an SSTable holding two frames of one device, written under
\* two spellings, answers true for both spellings and false for another
\* device.
BloomSoundnessWitness ==
  \E f \in {g \in sstFiles : g.complete} :
    /\ \E i, j \in DOMAIN f.entries :
         f.entries[i].frame.dev_eui = DevA /\ f.entries[j].frame.dev_eui = DevUpperA
    /\ might_contain(f.entries, DevA) /\ might_contain(f.entries, DevUpperA)
    /\ ~might_contain(f.entries, DevB)

\* C17: execute of a query without a filter clause is one step that returns
\* the "time filter is required" error, starts no scan of the memtable or of
\* an SSTable and leaves the engine's state as it was; a query is handed to
\* the engine only with a filter.
TimeFilterGuard ==
  [][/\ pc[Admin] = "idle" /\ "execute" \in {ret'[Admin].op, loc'[Admin].op}
        => \A q \in Queries :
             q.filter = None /\ Execute(Admin, q)
             => /\ ret'[Admin].status = "Err"
                /\ ret'[Admin].value.message = "Time filter is required"
                /\ pc'[Admin] = "idle"
                /\ UNCHANGED <<disk, memory>>
     /\ loc'[Admin].op = "execute" /\ pc'[Admin] = "q_memtable"
        => loc'[Admin].query.filter # None]_vars

\* C17 is met: execute has returned the error while the memtable or an
\* SSTable holds frames.
TimeFilterGuardWitness ==
  /\ pc[Admin] = "idle"
  /\ ret[Admin].op = "execute" /\ ret[Admin].status = "Err"
  /\ ret[Admin].value.message = "Time filter is required"
  /\ memData # {} /\ sstables # <<>>

\* The variants that the HTTP handler answers with their own message.
InvalidInput == {"QueryParseError", "InvalidDevEui"}

\* C18: the error of execute for a query without a filter clause is of a
\* kind that is shown to the user as it is.
MissingFilterErrorKind ==
  [][pc[Admin] = "idle" /\ ret'[Admin].op = "execute"
     => \A q \in Queries :
          q.filter = None /\ Execute(Admin, q)
          => ret'[Admin].status = "Err" /\ ret'[Admin].value.kind \in InvalidInput]_vars

\* C19: execute returns at most min(LIMIT, MAX_QUERY_RESULTS) frames, and at
\* most MAX_QUERY_RESULTS without a LIMIT; total_frames is their number.
QueryBound ==
  [][ReturnsOk(Admin, "execute")
     => /\ Len(ret'[Admin].value.frames)
             <= Min(IF loc[Admin].query.limit = None THEN MAX_QUERY_RESULTS
                    ELSE loc[Admin].query.limit[1], MAX_QUERY_RESULTS)
        /\ ret'[Admin].value.total_frames = Len(ret'[Admin].value.frames)]_vars

\* C19 is met: three frames of the device are stored, a filter covers one of
\* them or all, and execute has returned MAX_QUERY_RESULTS frames.
QueryBoundWitness ==
  /\ pc[Admin] = "idle"
  /\ ret[Admin].op = "execute" /\ ret[Admin].status = "Ok"
  /\ Cardinality(acked) > MAX_QUERY_RESULTS
  /\ ret[Admin].value.total_frames = MAX_QUERY_RESULTS

\* C20: of writes of one (device, timestamp) that run at once, also while a
\* flush clears the memtable, each is inserted under a key the memtable does
\* not hold, next to the entries that are there; and an entry leaves the
\* memtable only with the clear of a flush that has written it to its
\* SSTable.
EqualTimestampWrites ==
  [][/\ \A p \in Writers :
          pc[p] = "w_data" /\ pc'[p] = "w_check"
          => LET key == MemtableKey(loc[p].frame.dev_eui, timestamp(loc[p].frame),
                                    loc[p].sequence)
             IN /\ \A e \in memData : e.key # key
                /\ memData' = memData \cup {[key |-> key, frame |-> loc[p].frame]}
     /\ \A e \in memData \ memData' :
          \E p \in Procs : pc[p] = "f_clear" /\ pc'[p] # "f_clear"
                           /\ e \in Range(loc[p].entries)]_vars

Entries(frames) == Concat([j \in DOMAIN frames |-> WalEntry(frames[j])])

\* The file holds complete records of this release only.
Intact(file) == file = Entries(replay(file))

\* The record of an intact file that holds byte i.
RecordAt(file, i) ==
  CHOOSE k \in DOMAIN replay(file) :
    /\ Len(Entries(SubSeq(replay(file), 1, k - 1))) < i
    /\ i <= Len(Entries(SubSeq(replay(file), 1, k)))

\* C21: when one byte of the magic, the version, the payload or the checksum
\* of a record changes, replay still returns every record behind it in the segment
\* and every record of a later segment; and a record appended behind a
\* record of another version is returned.
WalReplaySkipsBadRecords ==
  [][/\ (Len(walFile') = Len(walFile) /\ walFile' # walFile /\ Intact(walFile))
        => LET i == CHOOSE i \in DOMAIN walFile : walFile'[i] # walFile[i]
               k == RecordAt(walFile, i)
               offset == i - Len(Entries(SubSeq(replay(walFile), 1, k - 1)))
               later == WalEntry(FrameAt(DevB, DateTime(2, 0), "Uplink", "app2"))
           IN offset \notin 7..10
              => /\ \A j \in DOMAIN replay(walFile) :
                      j > k => replay(walFile)[j] \in Range(replay(walFile'))
                 /\ replay_segments(<<later>>)[1]
                      \in Range(replay_segments(<<walFile', later>>))
     /\ (pc[Writer] = "w_append" /\ pc'[Writer] = "w_insert" /\ walLinked
         /\ faults = 0 /\ crashes = 0)
        => loc[Writer].frame \in Range(replay(walFile'))]_vars

\* C22: when the process dies inside an append to an intact segment, at any
\* byte of the record, replay returns every record written before.
TornTailIsEndOfLog ==
  [][(crashes' = crashes + 1 /\ Len(walFile') > Len(walFile) /\ Intact(walFile))
     => replay(walFile') = replay(walFile)]_vars

\* The devices that have a frame in the memtable or in a listed SSTable.
StoredDevices ==
  {e.key.dev_eui : e \in memData}
  \cup UNION {{e.key.dev_eui : e \in Range(FileEntries(sstFiles, sstables[i]))} :
              i \in DOMAIN sstables}

\* C24: whenever no operation is in progress, the device registry holds an
\* entry for a device if and only if the device has a frame in the memtable
\* or in a listed SSTable, also after a write that failed.
DeviceRegistryAgreement ==
  AllIdle => {r.key : r \in registry} = StoredDevices

\* C25: identifiers that differ only in letter case denote the same device:
\* every memtable and SSTable key holds the normalized identifier of its
\* frame, and query, the filter lookup of each listed SSTable and the
\* registry's get and get_device answer alike for both spellings.
DevEuiNormalization ==
  /\ \A e \in memData : e.key.dev_eui = normalized(e.frame.dev_eui)
  /\ \A i \in DOMAIN sstables :
       \A e \in Range(FileEntries(sstFiles, sstables[i])) :
         e.key.dev_eui = normalized(e.frame.dev_eui)
  /\ \A d1, d2 \in Devices :
       normalized(d1) = normalized(d2)
       => /\ query(d1, None, None) = query(d2, None, None)
          /\ \A i \in DOMAIN sstables :
               might_contain(FileEntries(sstFiles, sstables[i]), d1)
               = might_contain(FileEntries(sstFiles, sstables[i]), d2)
          /\ get(registry, d1) = get(registry, d2)
          /\ get_device(registry, d1) = get_device(registry, d2)

\* What shutdown leaves behind: an empty memtable, every acknowledged frame
\* in a listed SSTable, no record in the WAL, and a data directory from which
\* a new engine returns every acknowledged frame once and registers every
\* device that was written.
ShutdownResult ==
  /\ memData' = {}
  /\ \A f \in acked :
       \E i \in DOMAIN sstables' : f \in Range(iter_all(sstFiles', sstables'[i]))
  /\ replay(walFile') = <<>>
  /\ \A f \in acked :
       Occurrences(QueryOn(RecoveredMemtable(replay(walFile')), open_all_sstables(sstFiles'),
                           sstFiles', f.dev_eui, None, None), f) = 1
  /\ \A f \in acked :
       \E r \in RebuiltRegistry(sstFiles', replay(walFile')) : r.key = normalized(f.dev_eui)

QuerySnapshotConsistency ==
  [][\A p \in Procs :
       pc[p] = "q_scan"
       => /\ loc[p].paths = sstables
          /\ sstables' = sstables
          /\ \A f \in sstFiles : f.id \in Range(sstables) => f \in sstFiles']_vars

\* C27 is met: a query has read the first of two listed SSTables while the
\* compaction, the retention run or the device deletion of another task is
\* at the step that replaces the list.
QuerySnapshotConsistencyWitness ==
  /\ pc[Admin] = "q_scan" /\ loc[Admin].count = 1 /\ Len(sstables) >= 2
  /\ \/ pc[Writer] = "c_install"
     \/ pc[Flusher] \in {"r_delete", "d_install"}

\* The file holds the policies given.
FileHolds(file, global_days, applications, check_interval_hours) ==
  /\ file # None
  /\ from_str(file[1]) = Some(PoliciesOf(global_days, applications, check_interval_hours))

\* C28: at a start the policies are those of the file if it exists, whatever
\* the values of the environment, else those of the environment, written to
\* the file; and whenever no call is in progress the file holds the policies
\* of memory, also after calls that ran at once.
PolicyPersistence ==
  [][/\ (pc[Admin] = "boot" /\ pc'[Admin] = "idle")
        => /\ polFile # None => FileHolds(polFile, polGlobal', polApps', polInterval')
           /\ polFile = None
                => PoliciesOf(polGlobal', polApps', polInterval') \in Envs
     /\ (\A p \in Procs : pc'[p] = "idle")
        => FileHolds(polFile', polGlobal', polApps', polInterval')]_vars

\* C28 is met: after a restart over the file of the earlier calls, two calls
\* that ran at once have both returned Ok, and the file holds what they set.
PolicyPersistenceWitness ==
  /\ AllIdle /\ crashes = 1
  /\ ret[Admin].status = "Ok" /\ ret[Writer].status = "Ok"
  /\ polGlobal = Some(2) /\ polApps["app1"] = Some(Some(1)) /\ polApps["app2"] = Some(Some(1))
  /\ polInterval = 1
  /\ FileHolds(polFile, polGlobal, polApps, polInterval)

\* C29: a frame of any variant, with or without a decoded payload, read back
\* from its WAL record and from its SSTable entry is the frame that was
\* written.
BinaryRoundTrip ==
  [][(pc[Admin] = "t_sstable" /\ pc'[Admin] = "idle")
     => /\ ret'[Admin].status = "Ok"
        /\ ret'[Admin].value = <<loc[Admin].frame, loc[Admin].frame>>]_vars

\* C29 is met: an uplink whose decoded payload is an object of two members
\* has been read back from both formats.
BinaryRoundTripWitness ==
  /\ pc[Admin] = "idle" /\ ret[Admin].op = "round_trip" /\ ret[Admin].status = "Ok"
  /\ Len(ret[Admin].value) = 2
  /\ ret[Admin].value[2].kind = "Uplink"
  /\ ret[Admin].value[2].decoded_payload # None
  /\ ret[Admin].value[2].decoded_payload[1].type = "Object"
  /\ Len(ret[Admin].value[2].decoded_payload[1].members) = 2

\* The SSTables of the list that hold a frame of an application whose own
\* policy is "never".
KeptForever ==
  {id \in Range(sstables) :
     /\ CanOpen(sstFiles, id)
     /\ \E a \in application_ids(FileEntries(sstFiles, id)) : polApps[a] = Some(None)}

\* C30: no step of enforce_retention takes an SSTable that holds a frame of
\* an application under a "never" policy out of the list or off the disk,
\* whatever the other applications' policies, the global default, the age of
\* the SSTable and the order in which its applications are visited.
RetentionNeverKeeps ==
  [][pc[Admin] \in {"r_policies", "r_select", "r_delete"}
     => \A id \in KeptForever :
          /\ id \in Range(sstables')
          /\ CanOpen(sstFiles', id)
          /\ FileEntries(sstFiles', id) = FileEntries(sstFiles, id)]_vars

\* C30 is met: enforce_retention is deleting another SSTable and has passed
\* over one that holds an application under "never" next to an application
\* whose own period, like the global default, has run out for it.
RetentionNeverKeepsWitness ==
  /\ pc[Admin] = "r_delete"
  /\ polGlobal # None
  /\ \E id \in KeptForever \ Range(loc[Admin].paths) :
       /\ max_timestamp(FileEntries(sstFiles, id)) < now - polGlobal[1]
       /\ \E a \in application_ids(FileEntries(sstFiles, id)) :
            /\ polApps[a] # None /\ polApps[a] # Some(None)
            /\ max_timestamp(FileEntries(sstFiles, id)) < now - polApps[a][1][1]

\* C31: the id that allocate_sstable_id hands out is larger than every id
\* handed out since the directory was opened and is not the id of an SSTable
\* file present in the data directory, whether that file opens or not.
AllocatedIdsFresh ==
  [][(crashes' = crashes /\ nextSstId' # nextSstId)
     => /\ nextSstId' > nextSstId
        /\ \A f \in sstFiles : f.id # nextSstId]_vars

\* C32: a task that is reading, writing, opening, syncing or removing a file
\* holds no engine lock, except the WAL locks during append and the
\* compaction manager's write lock during compact.
LockDiscipline ==
  \A p \in Procs :
    (Running(p) /\ Instr(p).do = "io")
    => \/ loc[p].held = {}
       \/ /\ Instr(p).call = "append"
          /\ loc[p].held \subseteq {<<"wal", "read">>, <<"segment", "write">>}
       \/ /\ Instr(p).call = "compact"
          /\ loc[p].held = {<<"compaction", "write">>}

\* The limit execute works with, and the variants a SELECT clause keeps.
EffectiveLimit(q) ==
  IF q.limit # None /\ q.limit[1] < MAX_QUERY_RESULTS THEN q.limit[1] ELSE MAX_QUERY_RESULTS

KeptKinds(select) ==
  CASE select.kind = "Uplink" -> {"Uplink"}
    [] select.kind = "Downlink" -> {"Downlink"}
    [] select.kind = "Join" -> {"JoinRequest", "JoinAccept"}
    [] select.kind = "Status" -> {"Status"}
    [] OTHER -> {"Uplink", "Downlink", "JoinRequest", "JoinAccept", "Status"}

\* The frames of the selected kinds among the first n frames of a list.
KeptAmongFirst(frames, n, select) ==
  SelectSeq([i \in 1..(IF n < Len(frames) THEN n ELSE Len(frames)) |-> frames[i]],
            LAMBDA f : f.kind \in KeptKinds(select))

\* C33: execute returns the frames of the selected kinds among the earliest
\* effective-limit frames of the time range, in timestamp order; frames of
\* the selected kind beyond the cap are not returned.
CapBeforeKindFilter ==
  [][ReturnsOk(Admin, "execute")
     => LET q == loc[Admin].query
            kept == KeptAmongFirst(loc[Admin].results, EffectiveLimit(q), q.select)
        IN /\ ret'[Admin].value.total_frames = Len(kept)
           /\ ret'[Admin].value.frames =
                [i \in DOMAIN kept |-> project_fields(to_json(kept[i]), q.select)]]_vars

\* C33 is met: the time range holds an uplink, a downlink and an uplink, the
\* query selects uplinks under a cap of two, and execute is about to return
\* the one uplink among the first two frames.
CapBeforeKindFilterWitness ==
  /\ pc[Admin] = "x_limit"
  /\ loc[Admin].query.select.kind = "Uplink"
  /\ EffectiveLimit(loc[Admin].query) = 2
  /\ Len(loc[Admin].results) = 3
  /\ [i \in 1..3 |-> loc[Admin].results[i].kind] = <<"Uplink", "Downlink", "Uplink">>
  /\ Len(KeptAmongFirst(loc[Admin].results, 2, loc[Admin].query.select)) = 1

\* C34: while writes, flushes, compactions and the deletion of another
\* device interleave, query returns for every frame whose write returned Ok
\* a frame of its (device, timestamp).
NoLostFrames ==
  \A f \in acked :
    \E i \in DOMAIN QueryOn(memData, sstables, sstFiles, f.dev_eui, None, None) :
      Pair(QueryOn(memData, sstables, sstFiles, f.dev_eui, None, None)[i]) = Pair(f)

\* C35: while writes, flushes and queries interleave, a query returns no
\* frame whose write had returned Ok twice, and no two SSTables of the list
\* hold the same frame.
AtMostOnceVisibility ==
  [][/\ ReturnsOk(Admin, "query")
        => \A i, j \in DOMAIN ret'[Admin].value :
             (i # j /\ ret'[Admin].value[i] \in acked)
             => ret'[Admin].value[i] # ret'[Admin].value[j]
     /\ \A i, j \in DOMAIN sstables' :
          i # j => Range(iter_all(sstFiles', sstables'[i]))
                   \cap Range(iter_all(sstFiles', sstables'[j])) = {}]_vars

\* C36: the engine reopened after a crash, also one in the middle of
\* flush_memtable or compact, returns every frame whose write returned Ok
\* exactly once.
CrashAtomicity ==
  [][crashes' = crashes + 1
     => \A f \in acked :
          Occurrences(QueryOn(memData', sstables', sstFiles', f.dev_eui, None, None), f) = 1]_vars

\* C37: when the engine is reopened after delete_device(d) returned Ok, with
\* no frame of d written since, query(d, None, None) is empty and the
\* rebuilt registry has no entry for d.
DeletionSurvivesRestart ==
  [][(/\ crashes' = crashes + 1
      /\ AllIdle
      /\ ret[Admin].op = "delete_device" /\ ret[Admin].status = "Ok"
      /\ QueryOn(memData, sstables, sstFiles, DevA, None, None) = <<>>)
     => /\ QueryOn(memData', sstables', sstFiles', DevA, None, None) = <<>>
        /\ get(registry', DevA) = None]_vars

\* C38: whenever no call is in progress, the ids of the SSTable list are the
\* ids of the SSTable files of the data directory.
ListDiskAgreement ==
  AllIdle => Range(sstables) = {f.id : f \in sstFiles}

\* write returns an error in this step.
WriteFails ==
  /\ pc[Writer] # "idle"
  /\ loc[Writer].op = "write"
  /\ pc'[Writer] = "idle"
  /\ ret'[Writer].status = "Err"

\* C39: when write returns an error, the WAL and the memtable do not hold the
\* frame, and the device registry is as it was before the call: empty, when
\* the call was the first one.
WriteFailureLeavesNoTrace ==
  [][WriteFails
     => /\ \A i \in DOMAIN replay(walFile') : replay(walFile')[i] # loc[Writer].frame
        /\ \A e \in memData' : e.frame # loc[Writer].frame
        /\ written = 1 => registry' = {}]_vars

\* Some task has started a call, and every task within a call waits for a
\* lock that another task holds or waits for.
Deadlocked ==
  /\ \E p \in Procs : pc[p] = "l_step"
  /\ \A p \in Procs : pc[p] = "l_step" => Blocked(p)

\* C40: concurrent calls of the engine never deadlock on the WAL lock, the
\* segment mutex, the memtable lock, the SSTable-list lock and the
\* compaction-manager lock, and under fair scheduling every call that has
\* started returns: as each task makes one call, from some point on no task
\* is within a call.
DeadlockFreedom ==
  /\ []~Deadlocked
  /\ <>[](\A p \in Procs : pc[p] # "l_step")

\* A task waits for a lock while it holds another, and another task has
\* returned from its call.
DeadlockFreedomWitness ==
  \E p, q \in Procs :
    /\ Blocked(p) /\ loc[p].held # {}
    /\ ret[q] # NoRet /\ ret[q].status = "Ok"

====
